---- MODULE Spec2Model ----
(***************************************************************************)
(* Model of the monthly scenario engine of fire-planner                    *)
(* (src/calculators/scenarios.ts, buildScenario) and of the helpers it     *)
(* calls (src/calculators/fire.ts, src/calculators/mortgage.ts).           *)
(*                                                                         *)
(* Numbers.  The program computes in IEEE doubles.  The model computes in  *)
(* integers: money is a whole number of currency units, percentages are    *)
(* whole percents, and every division of the program is the integer        *)
(* division \div (rounding toward minus infinity), which stands for the    *)
(* rounding of the floating-point result.  Rates that the program holds as *)
(* fractions (returnRate 0.12) are held as percents (12).                  *)
(* null / undefined are the value NULL, Infinity is the value Infinity.    *)
(***************************************************************************)
EXTENDS Integers, Sequences, FiniteSets, TLC

\* ------------------------------------------------------------------------
\* Bounds of the model
\* ------------------------------------------------------------------------

\* longest simulated horizon in years (targetAge - currentAge)
MaxYears == 3

\* longest property list
MaxProps == 2

\* ------------------------------------------------------------------------
\* Values standing for null/undefined and Infinity
\* ------------------------------------------------------------------------

NULL == -1

Infinity == 1000000

Max(a, b) == IF a >= b THEN a ELSE b

Min(a, b) == IF a <= b THEN a ELSE b

\* ------------------------------------------------------------------------
\* Inputs: the configurations and property lists the runs are started with
\* ------------------------------------------------------------------------

CurrentAge == 35

StartYear == 2026

StartMonths == {2}

BirthMonths == {5}

ReturnRates == {0, 12}

Portfolios == {0, 3000}

Cashes == {-200, 0}

MonthlyInvestments == {100, 400}

MonthlyRents == {0, 150}

RentStartMonths == {NULL, 5}

ParentLoanYearsSet == {0, 1}

KeepPortfolioSet == {FALSE, TRUE}

\* monthly inflation factor in per mille: (1 + inflationRate)^(1/12) = 1 + x/1000
InflationPerMille == {10}

\* an overdrawn cash account goes with an empty portfolio, and a rent start
\* month is given only when there is a rent
Configs ==
  { c \in [ currentAge : {CurrentAge},
            targetAge : {CurrentAge + MaxYears},
            annualExpenses : {100},
            withdrawalRate : {4},
            inflationRate : InflationPerMille,
            currentPortfolio : Portfolios,
            currentCash : Cashes,
            monthlyInvestment : MonthlyInvestments,
            monthlyRent : MonthlyRents,
            parentLoanYears : ParentLoanYearsSet,
            startYear : {StartYear},
            startMo : StartMonths,
            birthMonth : BirthMonths,
            keepPortfolio : KeepPortfolioSet,
            rentStartMonth : RentStartMonths ] :
      /\ (c.currentCash < 0 => c.currentPortfolio = 0)
      /\ (c.rentStartMonth # NULL => c.monthlyRent > 0) }

\* the properties a list is made of: one bought in the first month, and two
\* that share month 12, one of them scheduled by purchaseYear alone
PropertyChoices ==
  { [ price |-> 1000, downPaymentPercent |-> 20, feesPercent |-> 10,
      additionalCosts |-> 0, purchaseYear |-> 1, purchaseMonth |-> 1,
      mortgageRate |-> 0, mortgageTerm |-> 2, label |-> "Flat" ],
    [ price |-> 2000, downPaymentPercent |-> 25, feesPercent |-> 10,
      additionalCosts |-> 50, purchaseYear |-> 1, purchaseMonth |-> NULL,
      mortgageRate |-> 12, mortgageTerm |-> 2, label |-> "Finca" ],
    [ price |-> 3000, downPaymentPercent |-> 30, feesPercent |-> 12,
      additionalCosts |-> 0, purchaseYear |-> 2, purchaseMonth |-> 12,
      mortgageRate |-> 12, mortgageTerm |-> 1, label |-> "House" ] }

PropertyLists == UNION { [1..n -> PropertyChoices] : n \in 0..MaxProps }

\* ------------------------------------------------------------------------
\* Date helpers
\* ------------------------------------------------------------------------

addMonths(startYear, startMo, offset) ==
  LET totalMonths == (startYear * 12 + (startMo - 1)) + offset
  IN  [year |-> totalMonths \div 12, month |-> (totalMonths % 12) + 1]

\* "YYYY-MM" is held as the number YYYYMM
formatDate(d) == d.year * 100 + d.month

RECURSIVE countBirthdays(_, _, _, _)
countBirthdays(by, birthMonth, startTotal, curTotal) ==
  LET bTotal == by * 12 + (birthMonth - 1)
  IN  IF bTotal > curTotal THEN 0
      ELSE (IF bTotal >= startTotal THEN 1 ELSE 0)
           + countBirthdays(by + 1, birthMonth, startTotal, curTotal)

computeAge(currentAge, startYear, startMo, monthOffset, birthMonth) ==
  LET startTotal == startYear * 12 + (startMo - 1)
      curTotal == startTotal + monthOffset
      startYearBirthday == IF startMo <= birthMonth THEN startYear ELSE startYear + 1
  IN  currentAge + countBirthdays(startYearBirthday, birthMonth, startTotal, curTotal)

\* ------------------------------------------------------------------------
\* Target and property cost (fire.ts), mortgage payment (mortgage.ts)
\* ------------------------------------------------------------------------

\* annualExpenses * (1 + inflationRate)^(months/12) / withdrawalRate, the
\* power taken one monthly factor at a time
RECURSIVE inflationAdjustedFireNumberAtMonth(_, _, _, _)
inflationAdjustedFireNumberAtMonth(annualExpenses, withdrawalRate, inflationRate, months) ==
  IF months <= 0 THEN (annualExpenses * 100) \div withdrawalRate
  ELSE (inflationAdjustedFireNumberAtMonth(annualExpenses, withdrawalRate,
                                           inflationRate, months - 1)
        * (1000 + inflationRate)) \div 1000

\* fire.ts 16-24: the target after a whole number of years
inflationAdjustedFireNumber(annualExpenses, withdrawalRate, inflationRate, years) ==
  inflationAdjustedFireNumberAtMonth(annualExpenses, withdrawalRate, inflationRate,
                                     years * 12)

propertyCashNeeded(property) ==
  (property.price * (property.downPaymentPercent + property.feesPercent)) \div 100
  + property.additionalCosts

\* fixed-point scale of the compound factor (1 + r)^n
PowScale == 10000

\* (1 + annualRatePercent/1200)^n, scaled by PowScale
RECURSIVE compoundFactor(_, _)
compoundFactor(annualRatePercent, n) ==
  IF n <= 0 THEN PowScale
  ELSE (compoundFactor(annualRatePercent, n - 1) * (1200 + annualRatePercent)) \div 1200

\* M = P r (1+r)^n / ((1+r)^n - 1), r = rate/100/12, n = termYears*12
monthlyMortgagePayment(principal, annualRatePercent, termYears) ==
  LET n == termYears * 12
      f == compoundFactor(annualRatePercent, n)
  IN  IF principal = 0 THEN 0
      ELSE IF annualRatePercent = 0 THEN principal \div n
      ELSE (principal * annualRatePercent * f) \div (1200 * (f - PowScale))

\* ------------------------------------------------------------------------
\* State of one run of buildScenario
\* ------------------------------------------------------------------------

VARIABLES
  pc,                 \* "start", "loop" or "done"
  config,             \* the FireConfig argument
  properties,         \* the PropertyConfig[] argument
  returnRate,         \* the returnRate argument (percent)
  propertyMonthMap,   \* month offset -> index of the property in properties
  firstPurchaseMonth,
  m,                  \* the month the loop is about to simulate
  balance,
  fireReachedMonth,
  fireReachedDate,
  fireReachedYear,
  fireReachedAge,
  feasible,
  activeMortgages,    \* sequence of [payment, endMonth]
  parentLoanPayment,
  parentLoanEndMonth,
  totalParentLoan,
  monthProjections,   \* sequence of MonthProjection
  result,             \* the returned Scenario, NULL until the run returns
  purchaseLog,        \* history: the purchases processed, in order
  mortgageCharges,    \* history: per month, the term each mortgage added to the sum
  unclamped,          \* history: per month, the balance before the clamp
  search,             \* the locals of requiredMonthlyWithPhases, NULL outside it
  compound,           \* arguments and locals of a call into compound.ts, NULL outside it
  batch               \* the locals of buildAllScenarios, NULL outside it

vars == << pc, config, properties, returnRate, propertyMonthMap, firstPurchaseMonth,
           m, balance, fireReachedMonth, fireReachedDate, fireReachedYear,
           fireReachedAge, feasible, activeMortgages, parentLoanPayment,
           parentLoanEndMonth, totalParentLoan, monthProjections, result,
           purchaseLog, mortgageCharges, unclamped, search, compound, batch >>

\* variant of totalMonths: the last month of the horizon is not simulated
totalMonthsShort == (config.targetAge - config.currentAge) * 12 - 1

\* line 91
totalMonths == (config.targetAge - config.currentAge) * 12

\* Math.ceil(a / 12)
ceilDiv12(a) == (a + 11) \div 12

\* prop.purchaseMonth ?? prop.purchaseYear * 12
scheduledMonth(prop) ==
  IF prop.purchaseMonth # NULL THEN prop.purchaseMonth ELSE prop.purchaseYear * 12

\* config.rentStartMonth ?? 0
rentStartMonthOf(cfg) == IF cfg.rentStartMonth # NULL THEN cfg.rentStartMonth ELSE 0

\* Map.set: the entry of key k is replaced or added
mapSet(map, k, v) == [x \in (DOMAIN map) \cup {k} |-> IF x = k THEN v ELSE map[x]]

\* for (const prop of properties) propertyMonthMap.set(purchaseMonth, prop)
RECURSIVE buildPropertyMonthMap(_, _)
buildPropertyMonthMap(props, n) ==
  IF n = 0 THEN << >>
  ELSE mapSet(buildPropertyMonthMap(props, n - 1), scheduledMonth(props[n]), n)

RECURSIVE minScheduled(_, _)
minScheduled(props, n) ==
  IF n = 0 THEN Infinity
  ELSE Min(scheduledMonth(props[n]), minScheduled(props, n - 1))

computeFirstPurchaseMonth(props) ==
  IF Len(props) > 0 THEN minScheduled(props, Len(props)) ELSE Infinity

\* variant of monthlyRentAt: rent still charged in the purchase month
monthlyRentAtInclusive(cfg, month, fpm) ==
  IF month >= rentStartMonthOf(cfg) /\ month <= fpm THEN cfg.monthlyRent ELSE 0

\* line 127
monthlyRentAt(cfg, month, fpm) ==
  IF month >= rentStartMonthOf(cfg) /\ month < fpm THEN cfg.monthlyRent ELSE 0

\* line 128
parentLoanPaymentAt(month, fpm, plEndMonth, plPayment) ==
  IF month > fpm /\ month <= plEndMonth THEN plPayment ELSE 0

\* variant of mortgageTermAt: the last instalment is dropped
mortgageTermAtStrict(mtg, month) == IF month < mtg.endMonth THEN mtg.payment ELSE 0

\* line 129, the term one mortgage adds to the sum
mortgageTermAt(mtg, month) == IF month <= mtg.endMonth THEN mtg.payment ELSE 0

\* variant of sumMortgages: a single mortgage slot, the latest purchase wins
sumMortgagesLastOnly(mortgages, month, n) ==
  IF n = 0 THEN 0 ELSE IF month <= mortgages[n].endMonth THEN mortgages[n].payment ELSE 0

\* line 129, the reduce over activeMortgages
RECURSIVE sumMortgages(_, _, _)
sumMortgages(mortgages, month, n) ==
  IF n = 0 THEN 0
  ELSE sumMortgages(mortgages, month, n - 1) + mortgageTermAt(mortgages[n], month)

\* variant of investingOf: no floor at zero
investingOfUnfloored(capacity, rent, mortgage, plPayment) ==
  capacity - rent - mortgage - plPayment

\* line 131
investingOf(capacity, rent, mortgage, plPayment) ==
  Max(0, capacity - rent - mortgage - plPayment)

\* variant of growthOf: the annual rate is applied every month
growthOfYearly(startBalance, rate) == (startBalance * rate) \div 100

\* line 132
growthOf(startBalance, rate) == (startBalance * rate) \div 1200

\* variant of fundPurchase: the available amount is not floored at zero
fundPurchaseUnfloored(keepPortfolio, cashNeeded, availableBalance) ==
  IF keepPortfolio
  THEN [parentLoan |-> cashNeeded, propertyWithdrawal |-> 0]
  ELSE IF availableBalance >= cashNeeded
  THEN [parentLoan |-> 0, propertyWithdrawal |-> cashNeeded]
  ELSE [parentLoan |-> cashNeeded - availableBalance,
        propertyWithdrawal |-> availableBalance]

\* variant of fundPurchase: keepPortfolio is ignored
fundPurchaseNoKeep(keepPortfolio, cashNeeded, availableBalance) ==
  IF availableBalance >= cashNeeded
  THEN [parentLoan |-> 0, propertyWithdrawal |-> cashNeeded]
  ELSE [parentLoan |-> cashNeeded - Max(0, availableBalance),
        propertyWithdrawal |-> Max(0, availableBalance)]

\* variant of fundPurchase: a purchase the balance cannot pay is still
\* withdrawn in full
fundPurchaseOverdraw(keepPortfolio, cashNeeded, availableBalance) ==
  IF keepPortfolio
  THEN [parentLoan |-> cashNeeded, propertyWithdrawal |-> 0]
  ELSE IF availableBalance >= cashNeeded
  THEN [parentLoan |-> 0, propertyWithdrawal |-> cashNeeded]
  ELSE [parentLoan |-> cashNeeded - Max(0, availableBalance),
        propertyWithdrawal |-> cashNeeded]

\* lines 143-157: how the cost of a purchase is paid
fundPurchase(keepPortfolio, cashNeeded, availableBalance) ==
  IF keepPortfolio
  THEN [parentLoan |-> cashNeeded, propertyWithdrawal |-> 0]
  ELSE IF availableBalance >= cashNeeded
  THEN [parentLoan |-> 0, propertyWithdrawal |-> cashNeeded]
  ELSE [parentLoan |-> cashNeeded - Max(0, availableBalance),
        propertyWithdrawal |-> Max(0, availableBalance)]

\* lines 160-162: the mortgage a purchase registers
newMortgage(prop, month) ==
  LET loanAmount == (prop.price * (100 - prop.downPaymentPercent)) \div 100
  IN  [payment |-> monthlyMortgagePayment(loanAmount, prop.mortgageRate, prop.mortgageTerm),
       endMonth |-> month + prop.mortgageTerm * 12]

\* variant of parentLoanInstalment: the loan is split over years, not months
parentLoanInstalmentPerYear(loan, years) == loan \div years

\* line 165
parentLoanInstalment(loan, years) == loan \div (years * 12)

\* line 166
parentLoanEnd(month, years) == month + years * 12

\* lines 177-180
clampBalance(raw) == IF raw < 0 THEN 0 ELSE raw

\* variant of feasibleAfter: the flag follows the current month only
feasibleAfterReset(flag, raw) == raw >= 0

feasibleAfter(flag, raw) == IF raw < 0 THEN FALSE ELSE flag

\* lines 183-195
phaseLabel(month, fpm, plEndMonth, mortgages) ==
  LET anyMortgageActive == \E k \in 1..Len(mortgages) : month <= mortgages[k].endMonth
  IN  IF month <= fpm THEN "Renting"
      ELSE IF month <= plEndMonth THEN "Mortgage + Parent Loan"
      ELSE IF anyMortgageActive THEN "Mortgage Only"
      ELSE IF fpm < Infinity THEN "Post-Mortgage"
      ELSE "Investing"

\* variant of fireReachedNow: a later month overwrites the reached month
fireReachedNowOverwrite(reachedMonth, bal, adjustedFire) == bal >= adjustedFire

\* line 205
fireReachedNow(reachedMonth, bal, adjustedFire) ==
  reachedMonth = NULL /\ bal >= adjustedFire

Init ==
  /\ pc = "start"
  /\ config \in Configs
  /\ properties \in PropertyLists
  /\ returnRate \in ReturnRates
  /\ propertyMonthMap = << >>
  /\ firstPurchaseMonth = Infinity
  /\ m = 0
  /\ balance = 0
  /\ fireReachedMonth = NULL
  /\ fireReachedDate = NULL
  /\ fireReachedYear = NULL
  /\ fireReachedAge = NULL
  /\ feasible = TRUE
  /\ activeMortgages = << >>
  /\ parentLoanPayment = 0
  /\ parentLoanEndMonth = 0
  /\ totalParentLoan = 0
  /\ monthProjections = << >>
  /\ result = NULL
  /\ purchaseLog = << >>
  /\ mortgageCharges = << >>
  /\ unclamped = << >>
  /\ search = NULL
  /\ compound = NULL
  /\ batch = NULL

\* lines 80-118: everything before the loop
Setup ==
  /\ pc = "start"
  /\ pc' = "loop"
  /\ propertyMonthMap' = buildPropertyMonthMap(properties, Len(properties))
  /\ firstPurchaseMonth' = computeFirstPurchaseMonth(properties)
  /\ balance' = config.currentPortfolio + config.currentCash
  /\ m' = 1
  /\ UNCHANGED << config, properties, returnRate, fireReachedMonth, fireReachedDate,
                  fireReachedYear, fireReachedAge, feasible, activeMortgages,
                  parentLoanPayment, parentLoanEndMonth, totalParentLoan,
                  monthProjections, result, purchaseLog, mortgageCharges, unclamped, search,
                  compound, batch >>

\* lines 120-229: one iteration of the month loop
MonthStep ==
  /\ pc = "loop"
  /\ m <= totalMonths
  /\ LET startBalance == balance
         dateStr == formatDate(addMonths(config.startYear, config.startMo, m))
         age == computeAge(config.currentAge, config.startYear, config.startMo, m,
                           config.birthMonth)
         rent == monthlyRentAt(config, m, firstPurchaseMonth)
         plPayment == parentLoanPaymentAt(m, firstPurchaseMonth, parentLoanEndMonth,
                                          parentLoanPayment)
         mortgage == sumMortgages(activeMortgages, m, Len(activeMortgages))
         monthlyInvesting == investingOf(config.monthlyInvestment, rent, mortgage, plPayment)
         growth == growthOf(startBalance, returnRate)
         hasProp == m \in DOMAIN propertyMonthMap
         prop == properties[propertyMonthMap[m]]
         cashNeeded == propertyCashNeeded(prop)
         availableBalance == startBalance + monthlyInvesting + growth
         funding == IF hasProp
                    THEN fundPurchase(config.keepPortfolio, cashNeeded, availableBalance)
                    ELSE [parentLoan |-> 0, propertyWithdrawal |-> 0]
         parentLoan == funding.parentLoan
         propertyWithdrawal == funding.propertyWithdrawal
         newLoan == hasProp /\ parentLoan > 0 /\ config.parentLoanYears > 0
         plPayment1 == IF newLoan
                       THEN parentLoanInstalment(parentLoan, config.parentLoanYears)
                       ELSE parentLoanPayment
         plEnd1 == IF newLoan THEN parentLoanEnd(m, config.parentLoanYears)
                   ELSE parentLoanEndMonth
         rawBalance == startBalance + monthlyInvesting + growth - propertyWithdrawal
         newBalance == clampBalance(rawBalance)
         mortgages1 == IF hasProp THEN Append(activeMortgages, newMortgage(prop, m))
                       ELSE activeMortgages
         adjustedFire == inflationAdjustedFireNumberAtMonth(
                           config.annualExpenses, config.withdrawalRate,
                           config.inflationRate, m)
         reached == fireReachedNow(fireReachedMonth, newBalance, adjustedFire)
     IN  /\ totalParentLoan' = totalParentLoan + parentLoan
         /\ activeMortgages' = mortgages1
         /\ parentLoanEndMonth' = plEnd1
         /\ parentLoanPayment' = IF m = plEnd1 + 1 THEN 0 ELSE plPayment1
         /\ balance' = newBalance
         /\ feasible' = feasibleAfter(feasible, rawBalance)
         /\ fireReachedMonth' = IF reached THEN m ELSE fireReachedMonth
         /\ fireReachedDate' = IF reached THEN dateStr ELSE fireReachedDate
         /\ fireReachedYear' = IF reached THEN ceilDiv12(m) ELSE fireReachedYear
         /\ fireReachedAge' = IF reached THEN age ELSE fireReachedAge
         /\ monthProjections' = Append(monthProjections,
              [ month |-> m,
                date |-> dateStr,
                age |-> age,
                phase |-> phaseLabel(m, firstPurchaseMonth, plEnd1, mortgages1),
                startBalance |-> startBalance,
                contribution |-> monthlyInvesting,
                growth |-> growth,
                propertyWithdrawal |-> propertyWithdrawal,
                propertyLabel |-> IF hasProp THEN prop.label ELSE "",
                parentLoan |-> IF parentLoan > 0 THEN parentLoan ELSE NULL,
                endBalance |-> newBalance,
                monthlyRent |-> rent,
                monthlyMortgage |-> mortgage,
                monthlyParentLoan |-> plPayment,
                monthlyInvesting |-> monthlyInvesting ])
         /\ purchaseLog' =
              IF hasProp
              THEN Append(purchaseLog,
                          [ month |-> m, idx |-> propertyMonthMap[m],
                            cashNeeded |-> cashNeeded,
                            available |-> availableBalance,
                            parentLoan |-> parentLoan,
                            propertyWithdrawal |-> propertyWithdrawal,
                            loanRegistered |-> newLoan ])
              ELSE purchaseLog
         /\ mortgageCharges' = Append(mortgageCharges,
              [k \in 1..Len(activeMortgages) |-> mortgageTermAt(activeMortgages[k], m)])
         /\ unclamped' = Append(unclamped, rawBalance)
  /\ m' = m + 1
  /\ UNCHANGED << pc, config, properties, returnRate, propertyMonthMap,
                  firstPurchaseMonth, result, search, compound, batch >>

\* ------------------------------------------------------------------------
\* After the loop: yearly aggregation, phase summary, the returned Scenario
\* ------------------------------------------------------------------------

\* lines 378-390, one accumulator of the loop over a chunk months[lo..hi]:
\* the field f summed
RECURSIVE chunkSum(_, _, _, _)
chunkSum(months, f, lo, hi) ==
  IF hi < lo THEN 0 ELSE chunkSum(months, f, lo, hi - 1) + months[hi][f]

\* lines 385-387: parentLoan is added only when present and not 0
RECURSIVE chunkLoan(_, _, _)
chunkLoan(months, lo, hi) ==
  IF hi < lo THEN 0
  ELSE chunkLoan(months, lo, hi - 1)
       + (IF months[hi].parentLoan # NULL /\ months[hi].parentLoan # 0
          THEN months[hi].parentLoan ELSE 0)

\* line 384: the label of the last month of the chunk that has one
RECURSIVE chunkLabel(_, _, _)
chunkLabel(months, lo, hi) ==
  IF hi < lo THEN ""
  ELSE IF months[hi].propertyLabel # "" THEN months[hi].propertyLabel
  ELSE chunkLabel(months, lo, hi - 1)

\* lines 378-390: the sums over one chunk months[lo..hi]
foldChunk(months, lo, hi) ==
  [contributions |-> chunkSum(months, "contribution", lo, hi),
   growth |-> chunkSum(months, "growth", lo, hi),
   propertyWithdrawal |-> chunkSum(months, "propertyWithdrawal", lo, hi),
   propertyLabel |-> chunkLabel(months, lo, hi),
   parentLoan |-> chunkLoan(months, lo, hi)]

\* variant of aggregateToYearly: the first month of each year is left out of the sums
aggregateToYearlySkipFirst(months) ==
  [k \in 1..ceilDiv12(Len(months)) |->
     LET lo == 12 * (k - 1) + 1
         hi == Min(12 * k, Len(months))
         sums == foldChunk(months, lo + 1, hi)
     IN  [year |-> k,
          age |-> months[hi].age,
          startBalance |-> months[lo].startBalance,
          contributions |-> sums.contributions,
          growth |-> sums.growth,
          propertyWithdrawal |-> sums.propertyWithdrawal,
          propertyLabel |-> sums.propertyLabel,
          parentLoan |-> IF sums.parentLoan > 0 THEN sums.parentLoan ELSE NULL,
          endBalance |-> months[hi].endBalance]]

\* lines 364-406
aggregateToYearly(months) ==
  [k \in 1..ceilDiv12(Len(months)) |->
     LET lo == 12 * (k - 1) + 1
         hi == Min(12 * k, Len(months))
         sums == foldChunk(months, lo, hi)
     IN  [year |-> k,
          age |-> months[hi].age,
          startBalance |-> months[lo].startBalance,
          contributions |-> sums.contributions,
          growth |-> sums.growth,
          propertyWithdrawal |-> sums.propertyWithdrawal,
          propertyLabel |-> sums.propertyLabel,
          parentLoan |-> IF sums.parentLoan > 0 THEN sums.parentLoan ELSE NULL,
          endBalance |-> months[hi].endBalance]]

RECURSIVE sumPayments(_, _)
sumPayments(mortgages, n) ==
  IF n = 0 THEN 0 ELSE sumPayments(mortgages, n - 1) + mortgages[n].payment

\* Math.max(...endMonths); Math.max() of nothing is -Infinity
RECURSIVE maxEndMonth(_, _)
maxEndMonth(mortgages, n) ==
  IF n = 0 THEN 0 - Infinity ELSE Max(maxEndMonth(mortgages, n - 1), mortgages[n].endMonth)

\* lines 235-341
buildPhases(cfg, props, fpm, plTotal, mortgages, months) ==
  IF ~(Len(props) > 0 /\ fpm <= months) THEN << >>
  ELSE
  LET years == cfg.parentLoanYears
      capacity == cfg.monthlyInvestment
      parentRepayment == IF plTotal > 0 THEN plTotal \div (years * 12) ELSE 0
      firstPurchaseYear == ceilDiv12(fpm)
      rent == cfg.monthlyRent
      rentStart == rentStartMonthOf(cfg)
      rentStartYear == ceilDiv12(rentStart)
      freePhase ==
        IF firstPurchaseYear >= 1 /\ rentStart > 1 /\ rentStartYear >= 1
        THEN << [label |-> "Before rent (free period)",
                 fromAge |-> cfg.currentAge + 1,
                 toAge |-> cfg.currentAge + Min(rentStartYear, firstPurchaseYear),
                 monthlyInvesting |-> capacity, monthlyMortgage |-> 0,
                 monthlyParentLoan |-> 0, monthlyRent |-> 0] >>
        ELSE << >>
      rentPhase ==
        IF firstPurchaseYear >= 1 /\ rentStart < fpm
        THEN << [label |-> "Before flat (paying rent)",
                 fromAge |-> IF rentStart > 1 THEN cfg.currentAge + rentStartYear
                             ELSE cfg.currentAge + 1,
                 toAge |-> cfg.currentAge + firstPurchaseYear,
                 monthlyInvesting |-> Max(0, capacity - rent), monthlyMortgage |-> 0,
                 monthlyParentLoan |-> 0, monthlyRent |-> rent] >>
        ELSE << >>
      totalMortgagePmt == sumPayments(mortgages, Len(mortgages))
      mortgageEndYear == ceilDiv12(maxEndMonth(mortgages, Len(mortgages)))
      mortgageEndAge == Min(cfg.currentAge + mortgageEndYear, cfg.targetAge)
      plEndAge == Min(cfg.currentAge + firstPurchaseYear + years, cfg.targetAge)
      loanPhases ==
        IF plTotal > 0 /\ years > 0
        THEN << [label |-> "Mortgage + parent loan repayment",
                 fromAge |-> cfg.currentAge + firstPurchaseYear + 1,
                 toAge |-> Min(plEndAge, mortgageEndAge),
                 monthlyInvesting |-> Max(0, capacity - totalMortgagePmt - parentRepayment),
                 monthlyMortgage |-> totalMortgagePmt,
                 monthlyParentLoan |-> parentRepayment, monthlyRent |-> 0] >>
             \o (IF plEndAge < mortgageEndAge /\ plEndAge < cfg.targetAge
                 THEN << [label |-> "Mortgage only (parent loan done)",
                          fromAge |-> plEndAge + 1,
                          toAge |-> mortgageEndAge,
                          monthlyInvesting |-> Max(0, capacity - totalMortgagePmt),
                          monthlyMortgage |-> totalMortgagePmt,
                          monthlyParentLoan |-> 0, monthlyRent |-> 0] >>
                 ELSE << >>)
        ELSE << [label |-> "Mortgage only",
                 fromAge |-> cfg.currentAge + firstPurchaseYear + 1,
                 toAge |-> mortgageEndAge,
                 monthlyInvesting |-> Max(0, capacity - totalMortgagePmt),
                 monthlyMortgage |-> totalMortgagePmt,
                 monthlyParentLoan |-> 0, monthlyRent |-> 0] >>
      postPhase ==
        IF mortgageEndAge < cfg.targetAge
        THEN << [label |-> "Post-mortgage (full investing)",
                 fromAge |-> mortgageEndAge + 1,
                 toAge |-> cfg.targetAge,
                 monthlyInvesting |-> capacity, monthlyMortgage |-> 0,
                 monthlyParentLoan |-> 0, monthlyRent |-> 0] >>
        ELSE << >>
  IN  freePhase \o rentPhase \o loanPhases \o postPhase

\* line 84: a preset label for 5, 7 and 9 percent, else "<rate>% return"
scenarioLabel(rate) ==
  IF rate = 5 THEN "Conservative (5%)"
  ELSE IF rate = 7 THEN "Moderate (7%)"
  ELSE IF rate = 9 THEN "Optimistic (9%)"
  ELSE "% return"

\* variant of parentLoanTotalOf: a total of 0 is returned as 0
parentLoanTotalOfAlways(total) == total

\* line 354: parentLoanTotal is absent unless something was borrowed
parentLoanTotalOf(total) == IF total > 0 THEN total ELSE NULL

\* lines 120, 231-357: the loop ends and the Scenario is returned
Finish ==
  /\ pc = "loop"
  /\ m > totalMonths
  /\ pc' = "done"
  /\ result' =
       [ label |-> scenarioLabel(returnRate),
         returnRate |-> returnRate,
         projections |-> aggregateToYearly(monthProjections),
         monthProjections |-> monthProjections,
         fireReachedYear |-> fireReachedYear,
         fireReachedAge |-> fireReachedAge,
         fireReachedMonth |-> fireReachedMonth,
         fireReachedDate |-> fireReachedDate,
         finalBalance |-> balance,
         feasible |-> feasible,
         parentLoanTotal |-> parentLoanTotalOf(totalParentLoan),
         phases |-> buildPhases(config, properties, firstPurchaseMonth, totalParentLoan,
                                activeMortgages, totalMonths) ]
  /\ UNCHANGED << config, properties, returnRate, propertyMonthMap, firstPurchaseMonth,
                  m, balance, fireReachedMonth, fireReachedDate, fireReachedYear,
                  fireReachedAge, feasible, activeMortgages, parentLoanPayment,
                  parentLoanEndMonth, totalParentLoan, monthProjections, purchaseLog,
                  mortgageCharges, unclamped, search, compound, batch >>

Next == Setup \/ MonthStep \/ Finish

Spec == Init /\ [][Next]_vars

\* the runs termination is checked on: every property list, every horizon
\* input, one choice of the amounts the loop guard does not read
TerminationConfigs ==
  { c \in Configs : /\ c.currentPortfolio = 0
                    /\ c.monthlyInvestment = 100
                    /\ c.rentStartMonth = NULL }

TerminationInit == Init /\ config \in TerminationConfigs /\ returnRate = 12

\* buildScenario is straight-line synchronous code: once called, every
\* statement that can run does run
FairSpec == TerminationInit /\ [][Next]_vars /\ WF_vars(Next)

\* ------------------------------------------------------------------------
\* computeAge on its own: every start month and birth month, month by month
\* ------------------------------------------------------------------------

MaxAgeMonths == 36

AgeConfigs ==
  [ currentAge : {CurrentAge},
    targetAge : {CurrentAge + MaxYears},
    annualExpenses : {100},
    withdrawalRate : {4},
    inflationRate : InflationPerMille,
    currentPortfolio : {0},
    currentCash : {0},
    monthlyInvestment : {100},
    monthlyRent : {0},
    parentLoanYears : {0},
    startYear : {StartYear},
    startMo : 1..12,
    birthMonth : 1..12,
    keepPortfolio : {FALSE},
    rentStartMonth : {NULL} ]

\* m is the monthOffset argument and result the age computeAge returns for it
AgeInit ==
  /\ pc = "age"
  /\ config \in AgeConfigs
  /\ properties = << >>
  /\ returnRate = 0
  /\ propertyMonthMap = << >>
  /\ firstPurchaseMonth = Infinity
  /\ m = 0
  /\ balance = 0
  /\ fireReachedMonth = NULL
  /\ fireReachedDate = NULL
  /\ fireReachedYear = NULL
  /\ fireReachedAge = NULL
  /\ feasible = TRUE
  /\ activeMortgages = << >>
  /\ parentLoanPayment = 0
  /\ parentLoanEndMonth = 0
  /\ totalParentLoan = 0
  /\ monthProjections = << >>
  /\ result = computeAge(config.currentAge, config.startYear, config.startMo, 0,
                         config.birthMonth)
  /\ purchaseLog = << >>
  /\ mortgageCharges = << >>
  /\ unclamped = << >>
  /\ search = NULL
  /\ compound = NULL
  /\ batch = NULL

\* computeAge called for the next month offset
AgeStep ==
  /\ pc = "age"
  /\ m < MaxAgeMonths
  /\ m' = m + 1
  /\ result' = computeAge(config.currentAge, config.startYear, config.startMo, m + 1,
                          config.birthMonth)
  /\ UNCHANGED << pc, config, properties, returnRate, propertyMonthMap,
                  firstPurchaseMonth, balance, fireReachedMonth, fireReachedDate,
                  fireReachedYear, fireReachedAge, feasible, activeMortgages,
                  parentLoanPayment, parentLoanEndMonth, totalParentLoan,
                  monthProjections, purchaseLog, mortgageCharges, unclamped, search,
                  compound, batch >>

AgeNext == AgeStep

AgeSpec == AgeInit /\ [][AgeNext]_vars

\* ------------------------------------------------------------------------
\* buildScenario as a function of its arguments, for the callers that run
\* it again and again (fire.ts)
\* ------------------------------------------------------------------------

\* lines 104-118: the loop state before the first month
loopStart(cfg) ==
  [ balance |-> cfg.currentPortfolio + cfg.currentCash,
    activeMortgages |-> << >>,
    parentLoanPayment |-> 0,
    parentLoanEndMonth |-> 0 ]

\* lines 120-229: the loop state after month month, from the state st before it
loopBody(st, cfg, props, rate, map, fpm, month) ==
  LET rent == monthlyRentAt(cfg, month, fpm)
      plPayment == parentLoanPaymentAt(month, fpm, st.parentLoanEndMonth,
                                       st.parentLoanPayment)
      mortgage == sumMortgages(st.activeMortgages, month, Len(st.activeMortgages))
      monthlyInvesting == investingOf(cfg.monthlyInvestment, rent, mortgage, plPayment)
      growth == growthOf(st.balance, rate)
      hasProp == month \in DOMAIN map
      prop == props[map[month]]
      availableBalance == st.balance + monthlyInvesting + growth
      funding == IF hasProp
                 THEN fundPurchase(cfg.keepPortfolio, propertyCashNeeded(prop),
                                   availableBalance)
                 ELSE [parentLoan |-> 0, propertyWithdrawal |-> 0]
      newLoan == hasProp /\ funding.parentLoan > 0 /\ cfg.parentLoanYears > 0
      plPayment1 == IF newLoan
                    THEN parentLoanInstalment(funding.parentLoan, cfg.parentLoanYears)
                    ELSE st.parentLoanPayment
      plEnd1 == IF newLoan THEN parentLoanEnd(month, cfg.parentLoanYears)
                ELSE st.parentLoanEndMonth
  IN  [ balance |-> clampBalance(availableBalance - funding.propertyWithdrawal),
        activeMortgages |-> IF hasProp
                            THEN Append(st.activeMortgages, newMortgage(prop, month))
                            ELSE st.activeMortgages,
        parentLoanPayment |-> IF month = plEnd1 + 1 THEN 0 ELSE plPayment1,
        parentLoanEndMonth |-> plEnd1 ]

\* line 120: the months lo..hi run in order from the state st. The range is
\* run as two halves, the state after the first half being computed before
\* the second half starts from it.
RECURSIVE loopOver(_, _, _, _, _, _, _, _)
loopOver(st, cfg, props, rate, map, fpm, lo, hi) ==
  IF lo > hi THEN st
  ELSE IF lo = hi THEN loopBody(st, cfg, props, rate, map, fpm, lo)
  ELSE CHOOSE after \in
         { loopOver(half, cfg, props, rate, map, fpm, (lo + hi) \div 2 + 1, hi) :
             half \in { loopOver(st, cfg, props, rate, map, fpm, lo, (lo + hi) \div 2) } } :
         TRUE

\* buildScenario(cfg, props, rate).finalBalance
finalBalanceOf(cfg, props, rate) ==
  loopOver(loopStart(cfg), cfg, props, rate, buildPropertyMonthMap(props, Len(props)),
           computeFirstPurchaseMonth(props), 1,
           (cfg.targetAge - cfg.currentAge) * 12).balance

\* ------------------------------------------------------------------------
\* gapAnalysis and requiredMonthlyWithPhases (fire.ts)
\* ------------------------------------------------------------------------

\* hi = 50_000, the upper end of the search
SearchUpper == 50000

\* lo, hi and mid are held in steps of SearchUpper / SearchGrid: halving
\* [0, SearchUpper] sixteen times stays on that grid
SearchGrid == 65536

\* one grid step is SearchUpper / SearchGrid = StepNum / StepDen in lowest terms
StepNum == SearchUpper \div 16

StepDen == SearchGrid \div 16

\* Math.floor and Math.ceil of a bound held in grid steps
gridFloor(x) == (x * StepNum) \div StepDen

gridCeil(x) == (x * StepNum + StepDen - 1) \div StepDen

\* variant of searchStart: the search starts from half the range
searchStartHalf == [lo |-> 0, hi |-> SearchGrid \div 2, i |-> 0, hits |-> 0]

\* fire.ts 99-103: lo = 0, hi = 50_000, i = 0; hits is history, the number
\* of probes that reached the target
searchStart == [lo |-> 0, hi |-> SearchGrid, i |-> 0, hits |-> 0]

\* const tolerance = 1; hi - lo < tolerance
withinTolerance(lo, hi) == (hi - lo) * StepNum < 1 * StepDen

\* variant of narrow: the halves are swapped
narrowSwapped(lo, hi, mid, reached) ==
  IF reached THEN [lo |-> mid, hi |-> hi] ELSE [lo |-> lo, hi |-> mid]

\* lines 107-111
narrow(lo, hi, mid, reached) ==
  IF reached THEN [lo |-> lo, hi |-> mid] ELSE [lo |-> mid, hi |-> hi]

\* lines 105-107: the scenario run with monthlyInvestment = capacity reaches
\* the target
reaches(cfg, props, rate, fireTarget, capacity) ==
  finalBalanceOf([cfg EXCEPT !.monthlyInvestment = capacity], props, rate) >= fireTarget

\* fire.ts 56-61
adjustedFireOf(cfg) ==
  inflationAdjustedFireNumber(cfg.annualExpenses, cfg.withdrawalRate, cfg.inflationRate,
                              cfg.targetAge - cfg.currentAge)

\* a property whose mortgage payment is above every capacity of the search,
\* bought in a month no other property is scheduled for
Mansion ==
  [ price |-> 4000000, downPaymentPercent |-> 20, feesPercent |-> 10,
    additionalCosts |-> 0, purchaseYear |-> 1, purchaseMonth |-> 2,
    mortgageRate |-> 0, mortgageTerm |-> 3, label |-> "Mansion" ]

BigExpenses == 40000

\* yearly expenses whose target lies where two purchases are just affordable
SmallExpenses == 13

SolverMaxProps == 2

SolverLists ==
  UNION { [1..n -> { p \in PropertyChoices : p.purchaseYear = 1 } \cup {Mansion}] :
            n \in 1..SolverMaxProps }

\* the capacity is what the search looks for; a target of a million is
\* paired with the mansion, a small target with a bridge loan of two years
SolverConfigs ==
  { [c EXCEPT !.annualExpenses = e] :
      c \in { d \in Configs : /\ d.monthlyInvestment = 100
                               /\ d.monthlyRent = 150
                               /\ d.rentStartMonth = NULL
                               /\ d.currentCash = 0 },
      e \in {100, BigExpenses} }
  \cup
  { [c EXCEPT !.annualExpenses = e, !.parentLoanYears = 2] :
      c \in { d \in Configs : /\ d.monthlyInvestment = 100
                               /\ d.monthlyRent = 150
                               /\ d.rentStartMonth = NULL
                               /\ d.currentCash = 0
                               /\ d.currentPortfolio = 0
                               /\ ~d.keepPortfolio },
      e \in {SmallExpenses} }

SolverInit ==
  /\ pc = "search"
  /\ config \in SolverConfigs
  /\ properties \in SolverLists
  /\ (config.annualExpenses = BigExpenses
        <=> \E k \in DOMAIN properties : properties[k] = Mansion)
  /\ returnRate \in ReturnRates
  /\ search = searchStart
  /\ compound = NULL
  /\ batch = NULL
  /\ propertyMonthMap = << >>
  /\ firstPurchaseMonth = Infinity
  /\ m = 0
  /\ balance = 0
  /\ fireReachedMonth = NULL
  /\ fireReachedDate = NULL
  /\ fireReachedYear = NULL
  /\ fireReachedAge = NULL
  /\ feasible = TRUE
  /\ activeMortgages = << >>
  /\ parentLoanPayment = 0
  /\ parentLoanEndMonth = 0
  /\ totalParentLoan = 0
  /\ monthProjections = << >>
  /\ result = NULL
  /\ purchaseLog = << >>
  /\ mortgageCharges = << >>
  /\ unclamped = << >>

\* fire.ts 103-113: one iteration of the bisection
SearchStep ==
  /\ pc = "search"
  /\ search.i < 50
  /\ LET mid == (search.lo + search.hi) \div 2
         reached == reaches(config, properties, returnRate, adjustedFireOf(config),
                            gridFloor(mid))
         bounds == narrow(search.lo, search.hi, mid, reached)
     IN  /\ search' = [lo |-> bounds.lo, hi |-> bounds.hi, i |-> search.i + 1,
                        hits |-> search.hits + (IF reached THEN 1 ELSE 0)]
         /\ pc' = IF withinTolerance(bounds.lo, bounds.hi) \/ search.i + 1 >= 50
                  THEN "return" ELSE "search"
  /\ UNCHANGED << config, properties, returnRate, propertyMonthMap, firstPurchaseMonth,
                  m, balance, fireReachedMonth, fireReachedDate, fireReachedYear,
                  fireReachedAge, feasible, activeMortgages, parentLoanPayment,
                  parentLoanEndMonth, totalParentLoan, monthProjections, result,
                  purchaseLog, mortgageCharges, unclamped, compound, batch >>

\* the acquisition costs of props[1..n], summed (fire.ts 63)
RECURSIVE totalPropertyCashOf(_, _)
totalPropertyCashOf(props, n) ==
  IF n = 0 THEN 0 ELSE totalPropertyCashOf(props, n - 1) + propertyCashNeeded(props[n])

\* fire.ts 115 and 76-86: Math.ceil(hi) is returned and gapAnalysis returns
SearchReturn ==
  /\ pc = "return"
  /\ pc' = "returned"
  /\ LET adjustedFire == adjustedFireOf(config)
         totalPropertyCash == totalPropertyCashOf(properties, Len(properties))
         currentAssets == config.currentPortfolio + config.currentCash
         reqMonthly == gridCeil(search.hi)
     IN  result' =
           [ fireNumber |-> (config.annualExpenses * 100) \div config.withdrawalRate,
             inflationAdjustedFireNumber |-> adjustedFire,
             totalPropertyCash |-> totalPropertyCash,
             totalNeeded |-> adjustedFire + totalPropertyCash,
             currentAssets |-> currentAssets,
             gap |-> adjustedFire + totalPropertyCash - currentAssets,
             requiredMonthly |-> reqMonthly,
             currentMonthly |-> config.monthlyInvestment,
             monthlyShortfall |-> reqMonthly - config.monthlyInvestment ]
  /\ UNCHANGED << config, properties, returnRate, propertyMonthMap, firstPurchaseMonth,
                  m, balance, fireReachedMonth, fireReachedDate, fireReachedYear,
                  fireReachedAge, feasible, activeMortgages, parentLoanPayment,
                  parentLoanEndMonth, totalParentLoan, monthProjections, purchaseLog,
                  mortgageCharges, unclamped, search, compound, batch >>

SolverNext == SearchStep \/ SearchReturn

SolverSpec == SolverInit /\ [][SolverNext]_vars

\* ------------------------------------------------------------------------
\* The closed forms of compound.ts: futureValue, requiredMonthly and
\* monthsToTarget. annualRate is a whole percent, as returnRate is.
\* ------------------------------------------------------------------------

\* a / b for a divisor of either sign
quotient(a, b) == IF b > 0 THEN a \div b ELSE (0 - a) \div (0 - b)

\* variant of futureValue: the zero rate is tested before the months
futureValueRateFirst(presentValue, monthlyContribution, annualRate, months) ==
  IF annualRate = 0 THEN presentValue + monthlyContribution * months
  ELSE IF months <= 0 THEN presentValue
  ELSE LET factor == compoundFactor(annualRate, months)
       IN  (presentValue * factor) \div PowScale
           + (monthlyContribution * quotient((factor - PowScale) * 1200, annualRate))
               \div PowScale

\* FV = PV (1+r)^n + PMT ((1+r)^n - 1) / r, r = annualRate / 12
futureValue(presentValue, monthlyContribution, annualRate, months) ==
  IF months <= 0 THEN presentValue
  ELSE IF annualRate = 0 THEN presentValue + monthlyContribution * months
  ELSE LET factor == compoundFactor(annualRate, months)
       IN  (presentValue * factor) \div PowScale
           + (monthlyContribution * quotient((factor - PowScale) * 1200, annualRate))
               \div PowScale

\* variant of requiredMonthly: the solved contribution is returned as it is
requiredMonthlyUnfloored(presentValue, targetValue, annualRate, months) ==
  IF months <= 0 THEN targetValue - presentValue
  ELSE IF annualRate = 0 THEN (targetValue - presentValue) \div months
  ELSE LET factor == compoundFactor(annualRate, months)
       IN  quotient((targetValue * PowScale - presentValue * factor) * annualRate,
                    1200 * (factor - PowScale))

\* PMT = (FV - PV (1+r)^n) r / ((1+r)^n - 1), floored at 0
requiredMonthly(presentValue, targetValue, annualRate, months) ==
  IF months <= 0 THEN Max(0, targetValue - presentValue)
  ELSE IF annualRate = 0 THEN Max(0, (targetValue - presentValue) \div months)
  ELSE LET factor == compoundFactor(annualRate, months)
           pmt == quotient((targetValue * PowScale - presentValue * factor) * annualRate,
                           1200 * (factor - PowScale))
       IN  Max(0, pmt)

\* maxMonths: number = 12 * 60
DefaultMaxMonths == 12 * 60

maxMonthsOf(args) == IF args.maxMonths = NULL THEN DefaultMaxMonths ELSE args.maxMonths

\* variant of mttContinue: the last month allowed is not simulated
mttContinueStrict(month, maxMonths) == month < maxMonths

\* the guard of the loop of monthsToTarget
mttContinue(month, maxMonths) == month <= maxMonths

\* balance * (1 + monthlyRate) + monthlyContribution
mttStep(bal, annualRate, monthlyContribution) ==
  (bal * (1200 + annualRate)) \div 1200 + monthlyContribution

\* largest months / maxMonths argument of the calls that pass one
MaxMonthsArg == 12

\* the argument lists of the calls; the default of maxMonths is taken with
\* an empty start balance
CompoundArgs ==
  { a \in [ presentValue : {0, 1000, 3000},
            monthlyContribution : {-10, 0, 100},
            annualRate : {-12, 0, 12},
            targetValue : {1000, 3300},
            months : {-1, 0, 1, MaxMonthsArg},
            maxMonths : {NULL, 0, MaxMonthsArg - 2, MaxMonthsArg} ] :
      a.maxMonths = NULL => a.presentValue = 0 /\ a.months = 0 }

CompoundInit ==
  /\ pc = "call"
  /\ \E a \in CompoundArgs :
       compound = [ presentValue |-> a.presentValue,
                    monthlyContribution |-> a.monthlyContribution,
                    annualRate |-> a.annualRate,
                    targetValue |-> a.targetValue,
                    months |-> a.months,
                    maxMonths |-> a.maxMonths,
                    balance |-> NULL,
                    m |-> 0,
                    balances |-> << >> ]
  /\ config = NULL
  /\ properties = << >>
  /\ returnRate = 0
  /\ propertyMonthMap = << >>
  /\ firstPurchaseMonth = Infinity
  /\ m = 0
  /\ balance = 0
  /\ fireReachedMonth = NULL
  /\ fireReachedDate = NULL
  /\ fireReachedYear = NULL
  /\ fireReachedAge = NULL
  /\ feasible = TRUE
  /\ activeMortgages = << >>
  /\ parentLoanPayment = 0
  /\ parentLoanEndMonth = 0
  /\ totalParentLoan = 0
  /\ monthProjections = << >>
  /\ result = NULL
  /\ purchaseLog = << >>
  /\ mortgageCharges = << >>
  /\ unclamped = << >>
  /\ search = NULL
  /\ batch = NULL

\* the variables of buildScenario and of its callers, untouched by compound.ts
scenarioVars ==
  << config, properties, returnRate, propertyMonthMap, firstPurchaseMonth, m, balance,
     fireReachedMonth, fireReachedDate, fireReachedYear, fireReachedAge, feasible,
     activeMortgages, parentLoanPayment, parentLoanEndMonth, totalParentLoan,
     monthProjections, purchaseLog, mortgageCharges, unclamped, search, batch >>

FutureValueCall ==
  /\ pc = "call"
  /\ pc' = "futureValue"
  /\ result' = futureValue(compound.presentValue, compound.monthlyContribution,
                           compound.annualRate, compound.months)
  /\ UNCHANGED << compound, scenarioVars >>

RequiredMonthlyCall ==
  /\ pc = "call"
  /\ pc' = "requiredMonthly"
  /\ result' = requiredMonthly(compound.presentValue, compound.targetValue,
                               compound.annualRate, compound.months)
  /\ UNCHANGED << compound, scenarioVars >>

\* monthsToTarget up to the loop: the early return of 0 or the first month
MonthsToTargetEnter ==
  /\ pc = "call"
  /\ IF compound.presentValue >= compound.targetValue
     THEN /\ pc' = "monthsToTarget"
          /\ result' = 0
          /\ UNCHANGED compound
     ELSE /\ pc' = "mttLoop"
          /\ compound' = [compound EXCEPT !.balance = compound.presentValue, !.m = 1]
          /\ UNCHANGED result
  /\ UNCHANGED scenarioVars

\* one iteration of the loop of monthsToTarget
MonthsToTargetStep ==
  /\ pc = "mttLoop"
  /\ mttContinue(compound.m, maxMonthsOf(compound))
  /\ LET bal == mttStep(compound.balance, compound.annualRate,
                        compound.monthlyContribution)
     IN  /\ IF bal >= compound.targetValue
            THEN /\ pc' = "monthsToTarget"
                 /\ result' = compound.m
                 /\ compound' = [compound EXCEPT !.balance = bal,
                                                 !.balances = Append(@, bal)]
            ELSE /\ compound' = [compound EXCEPT !.balance = bal,
                                                 !.m = @ + 1,
                                                 !.balances = Append(@, bal)]
                 /\ UNCHANGED << pc, result >>
  /\ UNCHANGED scenarioVars

\* the loop ends without the target: null is returned
MonthsToTargetExit ==
  /\ pc = "mttLoop"
  /\ ~mttContinue(compound.m, maxMonthsOf(compound))
  /\ pc' = "monthsToTarget"
  /\ result' = NULL
  /\ UNCHANGED << compound, scenarioVars >>

CompoundNext ==
  \/ FutureValueCall
  \/ RequiredMonthlyCall
  \/ MonthsToTargetEnter
  \/ MonthsToTargetStep
  \/ MonthsToTargetExit

CompoundSpec == CompoundInit /\ [][CompoundNext]_vars

\* ------------------------------------------------------------------------
\* gapAnalysis without properties (fire.ts 49-87), followed by a run of
\* buildScenario at the capacity it reports
\* ------------------------------------------------------------------------

\* the configurations without an overdrawn balance
GapConfigs == { c \in Configs : c.currentCash >= 0 }

GapInit ==
  /\ pc = "gap"
  /\ config \in GapConfigs
  /\ properties = << >>
  /\ returnRate \in ReturnRates
  /\ propertyMonthMap = << >>
  /\ firstPurchaseMonth = Infinity
  /\ m = 0
  /\ balance = 0
  /\ fireReachedMonth = NULL
  /\ fireReachedDate = NULL
  /\ fireReachedYear = NULL
  /\ fireReachedAge = NULL
  /\ feasible = TRUE
  /\ activeMortgages = << >>
  /\ parentLoanPayment = 0
  /\ parentLoanEndMonth = 0
  /\ totalParentLoan = 0
  /\ monthProjections = << >>
  /\ result = NULL
  /\ purchaseLog = << >>
  /\ mortgageCharges = << >>
  /\ unclamped = << >>
  /\ search = NULL
  /\ compound = NULL
  /\ batch = NULL

\* fire.ts 54-86 with properties.length = 0: the closed form is taken
ClosedFormReturn ==
  /\ pc = "gap"
  /\ Len(properties) = 0
  /\ pc' = "gapReturned"
  /\ LET years == config.targetAge - config.currentAge
         adjustedFire == inflationAdjustedFireNumber(config.annualExpenses,
                           config.withdrawalRate, config.inflationRate, years)
         totalPropertyCash == totalPropertyCashOf(properties, Len(properties))
         currentAssets == config.currentPortfolio + config.currentCash
         months == years * 12
         reqMonthly == requiredMonthly(currentAssets, adjustedFire, returnRate, months)
     IN  result' =
           [ fireNumber |-> (config.annualExpenses * 100) \div config.withdrawalRate,
             inflationAdjustedFireNumber |-> adjustedFire,
             totalPropertyCash |-> totalPropertyCash,
             totalNeeded |-> adjustedFire + totalPropertyCash,
             currentAssets |-> currentAssets,
             gap |-> adjustedFire + totalPropertyCash - currentAssets,
             requiredMonthly |-> reqMonthly,
             currentMonthly |-> config.monthlyInvestment,
             monthlyShortfall |-> reqMonthly - config.monthlyInvestment ]
  /\ UNCHANGED << config, properties, returnRate, propertyMonthMap, firstPurchaseMonth,
                  m, balance, fireReachedMonth, fireReachedDate, fireReachedYear,
                  fireReachedAge, feasible, activeMortgages, parentLoanPayment,
                  parentLoanEndMonth, totalParentLoan, monthProjections, purchaseLog,
                  mortgageCharges, unclamped, search, compound, batch >>

\* buildScenario is called with { ...config, monthlyInvestment: requiredMonthly }
\* and the same property list and rate
RunAtRequired ==
  /\ pc = "gapReturned"
  /\ pc' = "start"
  /\ config' = [config EXCEPT !.monthlyInvestment = result.requiredMonthly]
  /\ result' = NULL
  /\ UNCHANGED << properties, returnRate, propertyMonthMap, firstPurchaseMonth,
                  m, balance, fireReachedMonth, fireReachedDate, fireReachedYear,
                  fireReachedAge, feasible, activeMortgages, parentLoanPayment,
                  parentLoanEndMonth, totalParentLoan, monthProjections, purchaseLog,
                  mortgageCharges, unclamped, search, compound, batch >>

GapNext == ClosedFormReturn \/ RunAtRequired \/ Setup \/ MonthStep \/ Finish

GapSpec == GapInit /\ [][GapNext]_vars

\* ------------------------------------------------------------------------
\* buildScenario at one capacity after the other, as the bisection of
\* requiredMonthlyWithPhases calls it (fire.ts 103-106): the same config,
\* properties and rate, only monthlyInvestment differs from call to call
\* ------------------------------------------------------------------------

\* smallest and largest capacity of the sweep
MinCapacity == 80

MaxCapacity == 140

\* a bridge loan of one or two years, an empty portfolio, no rent
MonoConfigs ==
  { [c EXCEPT !.parentLoanYears = y, !.monthlyInvestment = MinCapacity] :
      c \in { d \in Configs : /\ d.currentPortfolio = 0
                              /\ d.currentCash = 0
                              /\ d.monthlyRent = 0
                              /\ d.monthlyInvestment = 100
                              /\ d.parentLoanYears = 1 },
      y \in {1, 2} }

\* result is the finalBalance of the scenario built at config.monthlyInvestment
MonoInit ==
  /\ pc = "sweep"
  /\ config \in MonoConfigs
  /\ properties \in PropertyLists
  /\ returnRate \in ReturnRates
  /\ result = finalBalanceOf(config, properties, returnRate)
  /\ propertyMonthMap = << >>
  /\ firstPurchaseMonth = Infinity
  /\ m = 0
  /\ balance = 0
  /\ fireReachedMonth = NULL
  /\ fireReachedDate = NULL
  /\ fireReachedYear = NULL
  /\ fireReachedAge = NULL
  /\ feasible = TRUE
  /\ activeMortgages = << >>
  /\ parentLoanPayment = 0
  /\ parentLoanEndMonth = 0
  /\ totalParentLoan = 0
  /\ monthProjections = << >>
  /\ purchaseLog = << >>
  /\ mortgageCharges = << >>
  /\ unclamped = << >>
  /\ search = NULL
  /\ compound = NULL
  /\ batch = NULL

\* the next call: testConfig = { ...config, monthlyInvestment: one unit more }
NextCapacity ==
  /\ pc = "sweep"
  /\ config.monthlyInvestment < MaxCapacity
  /\ config' = [config EXCEPT !.monthlyInvestment = @ + 1]
  /\ result' = finalBalanceOf(config', properties, returnRate)
  /\ UNCHANGED << pc, properties, returnRate, propertyMonthMap, firstPurchaseMonth,
                  m, balance, fireReachedMonth, fireReachedDate, fireReachedYear,
                  fireReachedAge, feasible, activeMortgages, parentLoanPayment,
                  parentLoanEndMonth, totalParentLoan, monthProjections, purchaseLog,
                  mortgageCharges, unclamped, search, compound, batch >>

MonoNext == NextCapacity

MonoSpec == MonoInit /\ [][MonoNext]_vars

\* ------------------------------------------------------------------------
\* buildAllScenarios (scenarios.ts 411-416): buildScenario called once per
\* entry of config.returnRates, one call after the other
\* ------------------------------------------------------------------------

\* longest config.returnRates
MaxRates == 3

RateLists == UNION { [1..n -> ReturnRates] : n \in 0..MaxRates }

BatchConfigs ==
  { c \in Configs : /\ c.currentPortfolio = 0
                    /\ c.monthlyInvestment = 100
                    /\ c.monthlyRent = 150
                    /\ c.rentStartMonth = NULL
                    /\ c.parentLoanYears = 1 }

\* no property, one property, and two properties bought eleven months apart
BatchLists ==
  { l \in PropertyLists : Len(l) <= 1 }
  \cup { << p, q >> : p \in { x \in PropertyChoices : x.label = "Flat" },
                      q \in { x \in PropertyChoices : x.label = "Finca" } }

\* batch.returnRates is config.returnRates, batch.i the position map is at,
\* batch.scenarios the array map has filled so far
BatchInit ==
  /\ pc = "map"
  /\ config \in BatchConfigs
  /\ properties \in BatchLists
  /\ \E rates \in RateLists : batch = [returnRates |-> rates, i |-> 1, scenarios |-> << >>]
  /\ returnRate = 0
  /\ propertyMonthMap = << >>
  /\ firstPurchaseMonth = Infinity
  /\ m = 0
  /\ balance = 0
  /\ fireReachedMonth = NULL
  /\ fireReachedDate = NULL
  /\ fireReachedYear = NULL
  /\ fireReachedAge = NULL
  /\ feasible = TRUE
  /\ activeMortgages = << >>
  /\ parentLoanPayment = 0
  /\ parentLoanEndMonth = 0
  /\ totalParentLoan = 0
  /\ monthProjections = << >>
  /\ result = NULL
  /\ purchaseLog = << >>
  /\ mortgageCharges = << >>
  /\ unclamped = << >>
  /\ search = NULL
  /\ compound = NULL

\* variant of freshMortgages: the array outlives the call
keptMortgages == activeMortgages

\* line 112: const activeMortgages = [], a new array in every call
freshMortgages == << >>

\* the callback of map calls buildScenario(config, properties, rate): the
\* locals of lines 104-116 are created anew
BatchCall ==
  /\ pc = "map"
  /\ batch.i <= Len(batch.returnRates)
  /\ pc' = "start"
  /\ returnRate' = batch.returnRates[batch.i]
  /\ propertyMonthMap' = << >>
  /\ firstPurchaseMonth' = Infinity
  /\ m' = 0
  /\ balance' = 0
  /\ fireReachedMonth' = NULL
  /\ fireReachedDate' = NULL
  /\ fireReachedYear' = NULL
  /\ fireReachedAge' = NULL
  /\ feasible' = TRUE
  /\ activeMortgages' = freshMortgages
  /\ parentLoanPayment' = 0
  /\ parentLoanEndMonth' = 0
  /\ totalParentLoan' = 0
  /\ monthProjections' = << >>
  /\ result' = NULL
  /\ purchaseLog' = << >>
  /\ mortgageCharges' = << >>
  /\ unclamped' = << >>
  /\ UNCHANGED << config, properties, search, compound, batch >>

\* the Scenario returned by the call becomes the next element of the array
BatchCollect ==
  /\ pc = "done"
  /\ pc' = "map"
  /\ batch' = [batch EXCEPT !.scenarios = Append(@, result), !.i = @ + 1]
  /\ UNCHANGED << config, properties, returnRate, propertyMonthMap, firstPurchaseMonth,
                  m, balance, fireReachedMonth, fireReachedDate, fireReachedYear,
                  fireReachedAge, feasible, activeMortgages, parentLoanPayment,
                  parentLoanEndMonth, totalParentLoan, monthProjections, result,
                  purchaseLog, mortgageCharges, unclamped, search, compound >>

\* map has visited every rate: the array is returned
BatchReturn ==
  /\ pc = "map"
  /\ batch.i > Len(batch.returnRates)
  /\ pc' = "mapped"
  /\ result' = batch.scenarios
  /\ UNCHANGED << config, properties, returnRate, propertyMonthMap, firstPurchaseMonth,
                  m, balance, fireReachedMonth, fireReachedDate, fireReachedYear,
                  fireReachedAge, feasible, activeMortgages, parentLoanPayment,
                  parentLoanEndMonth, totalParentLoan, monthProjections, purchaseLog,
                  mortgageCharges, unclamped, search, compound, batch >>

BatchNext == BatchCall \/ Setup \/ MonthStep \/ Finish \/ BatchCollect \/ BatchReturn

BatchSpec == BatchInit /\ [][BatchNext]_vars

\* ------------------------------------------------------------------------
\* Properties of the month sequence. The records of a run are appended one
\* per month and never changed, so what holds of every record of a finished
\* run holds of every record ever produced.
\* ------------------------------------------------------------------------

Recorded == 1..Len(monthProjections)

Purchases == 1..Len(purchaseLog)

\* the property bought by the k-th processed purchase
propOf(k) == properties[purchaseLog[k].idx]

\* the amortization payment of each property taken on its own
ownPaymentTable ==
  [prop \in PropertyChoices |->
     monthlyMortgagePayment((prop.price * (100 - prop.downPaymentPercent)) \div 100,
                            prop.mortgageRate, prop.mortgageTerm)]

ownPayment(prop) == ownPaymentTable[prop]

\* the k-th purchase's mortgage is in its term in month mm
inTerm(k, mm) ==
  /\ purchaseLog[k].month < mm
  /\ mm <= purchaseLog[k].month + propOf(k).mortgageTerm * 12

RECURSIVE expectedMortgage(_, _)
expectedMortgage(mm, n) ==
  IF n = 0 THEN 0
  ELSE expectedMortgage(mm, n - 1) + (IF inTerm(n, mm) THEN ownPayment(propOf(n)) ELSE 0)

\* C1: in every month record, monthlyMortgage is the sum of the own
\* amortization payments of the properties purchased in an earlier month p
\* with m <= p + mortgageTerm*12; other purchases and lapses change nothing.
C1_MortgageIsSumOfOwnPayments ==
  pc = "done" =>
    \A mm \in Recorded :
      monthProjections[mm].monthlyMortgage = expectedMortgage(mm, Len(purchaseLog))

\* two mortgages are charged together, then the earlier one lapses and the
\* other one goes on alone
C1_Witness ==
  \E j, k \in Purchases : \E mm, mm2 \in Recorded :
    /\ j # k /\ mm < mm2
    /\ inTerm(j, mm) /\ inTerm(k, mm)
    /\ ownPayment(propOf(j)) > 0 /\ ownPayment(propOf(k)) > 0
    /\ monthProjections[mm].monthlyMortgage = ownPayment(propOf(j)) + ownPayment(propOf(k))
    /\ ~inTerm(j, mm2) /\ inTerm(k, mm2)
    /\ monthProjections[mm2].monthlyMortgage = ownPayment(propOf(k))

\* the k-th purchase registered a bridge loan that is repaid in month mm
loanInTerm(k, mm) ==
  /\ purchaseLog[k].loanRegistered
  /\ purchaseLog[k].month < mm
  /\ mm <= purchaseLog[k].month + config.parentLoanYears * 12

RECURSIVE expectedParentLoan(_, _)
expectedParentLoan(mm, n) ==
  IF n = 0 THEN 0
  ELSE expectedParentLoan(mm, n - 1)
       + (IF loanInTerm(n, mm)
          THEN purchaseLog[n].parentLoan \div (config.parentLoanYears * 12) ELSE 0)

\* C2: once a purchase has originated a bridge loan while an earlier bridge
\* loan was still being repaid, every later month's monthlyParentLoan is the
\* sum of the instalments of all bridge loans whose end month has not passed.
C2_BridgeLoansStack ==
  \A mm \in Recorded :
    (\E j, k \in Purchases :
        /\ j < k
        /\ purchaseLog[j].loanRegistered /\ purchaseLog[k].loanRegistered
        /\ purchaseLog[k].month <= purchaseLog[j].month + config.parentLoanYears * 12
        /\ purchaseLog[k].month < mm)
    => monthProjections[mm].monthlyParentLoan = expectedParentLoan(mm, Len(purchaseLog))

\* C3: when the run has returned, every property whose scheduled month lies
\* in 1..totalMonths was processed exactly once, in the record of that
\* month: its cost was paid there and its mortgage registered there.
C3_EveryScheduledPurchaseProcessedOnce ==
  pc = "done" =>
    \A i \in 1..Len(properties) :
      scheduledMonth(properties[i]) \in 1..totalMonths =>
        /\ Cardinality({k \in Purchases : purchaseLog[k].idx = i}) = 1
        /\ \A k \in Purchases :
             purchaseLog[k].idx = i =>
               /\ purchaseLog[k].month = scheduledMonth(properties[i])
               /\ purchaseLog[k].propertyWithdrawal + purchaseLog[k].parentLoan
                    = propertyCashNeeded(properties[i])
               /\ activeMortgages[k] = newMortgage(properties[i], purchaseLog[k].month)

\* the earliest scheduled purchase month over all properties
firstScheduled ==
  LET S == {scheduledMonth(properties[i]) : i \in 1..Len(properties)}
  IN  IF S = {} THEN Infinity ELSE CHOOSE x \in S : \A y \in S : x <= y

\* C4: monthlyRent of month m is the configured rent when
\* rentStartMonth <= m < F and 0 otherwise, F the earliest scheduled
\* purchase month (infinite with no property).
C4_RentOnlyBeforeFirstPurchase ==
  pc = "done" =>
    \A mm \in Recorded :
      monthProjections[mm].monthlyRent =
        (IF rentStartMonthOf(config) <= mm /\ mm < firstScheduled
         THEN config.monthlyRent ELSE 0)

\* no rent before the rent start, rent up to the month before the purchase,
\* none in the purchase month and after
C4_Witness ==
  /\ config.monthlyRent > 0
  /\ firstScheduled + 1 \in Recorded
  /\ rentStartMonthOf(config) > 1
  /\ rentStartMonthOf(config) < firstScheduled
  /\ monthProjections[rentStartMonthOf(config) - 1].monthlyRent = 0
  /\ monthProjections[firstScheduled - 1].monthlyRent = config.monthlyRent
  /\ monthProjections[firstScheduled].monthlyRent = 0
  /\ monthProjections[firstScheduled].propertyWithdrawal > 0
  /\ monthProjections[firstScheduled + 1].monthlyRent = 0

\* the amount a month record says was available for a purchase
availableIn(rec) == rec.startBalance + rec.monthlyInvesting + rec.growth

loanIn(rec) == IF rec.parentLoan = NULL THEN 0 ELSE rec.parentLoan

\* C5 as stated: in a purchase month without keepPortfolio, withdrawal plus
\* bridge loan is the cost; with enough available the cost is withdrawn and
\* no loan is made; otherwise the whole available amount is withdrawn, the
\* loan is cost - available and the end balance is 0.
C5_WithdrawalPlusLoanIsCost_AsStated ==
  \A k \in Purchases :
    ~config.keepPortfolio =>
      LET rec == monthProjections[purchaseLog[k].month]
          cost == propertyCashNeeded(propOf(k))
          avail == availableIn(rec)
      IN  /\ rec.propertyWithdrawal + loanIn(rec) = cost
          /\ IF avail >= cost
             THEN rec.propertyWithdrawal = cost /\ rec.parentLoan = NULL
             ELSE /\ rec.propertyWithdrawal = avail
                  /\ loanIn(rec) = cost - avail
                  /\ rec.endBalance = 0

\* C5 amended: the same, the amount withdrawn when the available amount is
\* short being the available amount floored at zero, and the loan the rest
\* of the cost.
C5_WithdrawalPlusLoanIsCost ==
  \A k \in Purchases :
    ~config.keepPortfolio =>
      LET rec == monthProjections[purchaseLog[k].month]
          cost == propertyCashNeeded(propOf(k))
          avail == availableIn(rec)
      IN  /\ rec.propertyWithdrawal + loanIn(rec) = cost
          /\ IF avail >= cost
             THEN rec.propertyWithdrawal = cost /\ rec.parentLoan = NULL
             ELSE /\ rec.propertyWithdrawal = Max(0, avail)
                  /\ loanIn(rec) = cost - Max(0, avail)
                  /\ rec.endBalance = 0

\* one run with a purchase made on a negative available amount, one made on
\* a positive but short amount
C5_Witness ==
  /\ ~config.keepPortfolio
  /\ \E j, k \in Purchases :
       LET rj == monthProjections[purchaseLog[j].month]
           rk == monthProjections[purchaseLog[k].month]
       IN  /\ availableIn(rj) < 0
           /\ rj.propertyWithdrawal = 0
           /\ loanIn(rj) = propertyCashNeeded(propOf(j))
           /\ availableIn(rk) > 0
           /\ availableIn(rk) < propertyCashNeeded(propOf(k))
           /\ rk.propertyWithdrawal = availableIn(rk)
           /\ rk.endBalance = 0

C7_State ==
  /\ \A mm \in Recorded :
       /\ monthProjections[mm].endBalance >= 0
       /\ (unclamped[mm] < 0 => monthProjections[mm].endBalance = 0)
  /\ feasible = (\A mm \in Recorded : unclamped[mm] >= 0)
  /\ (pc = "done" =>
        /\ Len(result.monthProjections) = totalMonths
        /\ result.feasible = feasible
        /\ \A mm \in 1..totalMonths : result.monthProjections[mm].month = mm)

\* C7: every endBalance is >= 0; feasible is false exactly when some month's
\* balance before the clamp was negative, and that month's endBalance is 0;
\* the flag never goes back to true; the run is not cut short.
C7_ClampAndOneWayFlag ==
  /\ []C7_State
  /\ [][feasible = FALSE => feasible' = FALSE]_vars

\* an infeasible run that went on to the end and recovered a balance
C7_Witness ==
  /\ pc = "done"
  /\ ~result.feasible
  /\ \E mm, mm2 \in Recorded :
       /\ mm < mm2
       /\ unclamped[mm] < 0
       /\ monthProjections[mm].endBalance = 0
       /\ unclamped[mm2] > 0

\* the inflation-adjusted target of every month, for the targets configured
targetTable ==
  [t \in {<<c.annualExpenses, c.withdrawalRate, c.inflationRate>> : c \in Configs} |->
     [mm \in 1..(MaxYears * 12) |->
        inflationAdjustedFireNumberAtMonth(t[1], t[2], t[3], mm)]]

targetAt(mm) ==
  targetTable[<<config.annualExpenses, config.withdrawalRate, config.inflationRate>>][mm]

\* the months recorded so far whose end balance reaches the target
reachedMonths == {mm \in Recorded : monthProjections[mm].endBalance >= targetAt(mm)}

C8_State ==
  /\ IF reachedMonths = {}
     THEN fireReachedMonth = NULL /\ fireReachedDate = NULL /\ fireReachedAge = NULL
     ELSE /\ fireReachedMonth \in reachedMonths
          /\ \A mm \in reachedMonths : fireReachedMonth <= mm
          /\ fireReachedDate = monthProjections[fireReachedMonth].date
          /\ fireReachedAge = monthProjections[fireReachedMonth].age
  /\ (pc = "done" =>
        /\ result.fireReachedMonth = fireReachedMonth
        /\ result.fireReachedDate = fireReachedDate
        /\ result.fireReachedAge = fireReachedAge)

\* C8: fireReachedMonth is the least month whose endBalance reaches the
\* target of that month, null exactly when there is none; it is never
\* overwritten; fireReachedDate and fireReachedAge are those of that record.
C8_FirstReachedMonth ==
  /\ []C8_State
  /\ [][fireReachedMonth # NULL => fireReachedMonth' = fireReachedMonth]_vars

\* the target is reached, then a purchase takes the balance below it, then
\* the balance reaches it again
C8_Witness ==
  /\ pc = "done"
  /\ result.fireReachedMonth # NULL
  /\ \E mm, mm2 \in Recorded :
       /\ result.fireReachedMonth < mm /\ mm < mm2
       /\ monthProjections[mm].endBalance < targetAt(mm)
       /\ monthProjections[mm].propertyWithdrawal > 0
       /\ mm2 \in reachedMonths

\* what the k-th mortgage added to the mortgage sum of month mm
chargeOf(k, mm) ==
  IF k <= Len(mortgageCharges[mm]) THEN mortgageCharges[mm][k] ELSE 0

RECURSIVE sumCharges(_, _)
sumCharges(mm, n) == IF n = 0 THEN 0 ELSE sumCharges(mm, n - 1) + mortgageCharges[mm][n]

\* C9: the mortgage of a property purchased in month p is charged in the
\* months p < m <= p + mortgageTerm*12 and in no other: not in month p, then
\* mortgageTerm*12 equal instalments, then nothing.
C9_MortgageChargedDuringTermOnly ==
  pc = "done" =>
    /\ \A mm \in Recorded :
         /\ monthProjections[mm].monthlyMortgage = sumCharges(mm, Len(mortgageCharges[mm]))
         /\ \A k \in Purchases :
              chargeOf(k, mm) = (IF inTerm(k, mm) THEN ownPayment(propOf(k)) ELSE 0)
    /\ \A k \in Purchases :
         purchaseLog[k].month + propOf(k).mortgageTerm * 12 <= Len(monthProjections) =>
           Cardinality({mm \in Recorded : chargeOf(k, mm) = ownPayment(propOf(k))})
             = propOf(k).mortgageTerm * 12

\* a mortgage whose whole term lies inside the run
C9_Witness ==
  \E k \in Purchases :
    LET p == purchaseLog[k].month
        e == p + propOf(k).mortgageTerm * 12
    IN  /\ e + 1 \in Recorded
        /\ ownPayment(propOf(k)) > 0
        /\ chargeOf(k, p) = 0
        /\ chargeOf(k, p + 1) = ownPayment(propOf(k))
        /\ chargeOf(k, e) = ownPayment(propOf(k))
        /\ chargeOf(k, e + 1) = 0

RECURSIVE sumParentLoanPaid(_)
sumParentLoanPaid(n) ==
  IF n = 0 THEN 0 ELSE sumParentLoanPaid(n - 1) + monthProjections[n].monthlyParentLoan

\* the purchases that originated a bridge loan
Loans == {k \in Purchases : purchaseLog[k].parentLoan > 0}

\* C10: with one bridge loan L originated in month p and parentLoanYears
\* Y > 0, monthlyParentLoan is L/(Y*12) in the months p < m <= p + Y*12 and 0
\* in every other month, so that the instalments of a loan that ends inside
\* the run add up to L (up to the rounding of the division); with Y = 0
\* nothing is ever repaid.
C10_SingleBridgeLoanSchedule ==
  LET Y == config.parentLoanYears
  IN  /\ (Y = 0 => \A mm \in Recorded : monthProjections[mm].monthlyParentLoan = 0)
      /\ (Y > 0 /\ Cardinality(Loans) = 1 =>
            LET k == CHOOSE x \in Loans : TRUE
                p == purchaseLog[k].month
                L == purchaseLog[k].parentLoan
            IN  /\ \A mm \in Recorded :
                     monthProjections[mm].monthlyParentLoan =
                       (IF p < mm /\ mm <= p + Y * 12 THEN L \div (Y * 12) ELSE 0)
                /\ (pc = "done" /\ p + Y * 12 <= totalMonths =>
                      /\ sumParentLoanPaid(totalMonths) = (Y * 12) * (L \div (Y * 12))
                      /\ sumParentLoanPaid(totalMonths) <= L
                      /\ L - sumParentLoanPaid(totalMonths) < Y * 12))

\* a single bridge loan repaid in full before the run ends
C10_Witness ==
  /\ pc = "done"
  /\ config.parentLoanYears > 0
  /\ Cardinality(Loans) = 1
  /\ LET k == CHOOSE x \in Loans : TRUE
         p == purchaseLog[k].month
         e == p + config.parentLoanYears * 12
     IN  /\ e < totalMonths
         /\ monthProjections[p].monthlyParentLoan = 0
         /\ monthProjections[p + 1].monthlyParentLoan > 0
         /\ monthProjections[e].monthlyParentLoan > 0
         /\ monthProjections[e + 1].monthlyParentLoan = 0
         /\ sumParentLoanPaid(totalMonths) > 0

\* ------------------------------------------------------------------------
\* keepPortfolio, yearly aggregation, the run without properties
\* ------------------------------------------------------------------------

\* the acquisition costs of the first n processed purchases, summed
RECURSIVE sumCosts(_)
sumCosts(n) ==
  IF n = 0 THEN 0 ELSE sumCosts(n - 1) + propertyCashNeeded(propOf(n))

\* what C11 says of everything but the end balance of a purchase month
C11_LoansInFull ==
  /\ \A mm \in Recorded : monthProjections[mm].propertyWithdrawal = 0
  /\ \A k \in Purchases :
       /\ purchaseLog[k].parentLoan = propertyCashNeeded(propOf(k))
       /\ loanIn(monthProjections[purchaseLog[k].month]) = propertyCashNeeded(propOf(k))
  /\ totalParentLoan = sumCosts(Len(purchaseLog))
  /\ (pc = "done" =>
        result.parentLoanTotal =
          (IF sumCosts(Len(purchaseLog)) > 0 THEN sumCosts(Len(purchaseLog)) ELSE NULL))

\* C11 as the specification states it: with keepPortfolio set no month
\* withdraws anything, every processed purchase borrows its full acquisition
\* cost whatever the balance, parentLoanTotal is the sum of those costs, and
\* the end balance of a purchase month is start + investable + growth.
C11_KeepPortfolio_AsStated ==
  config.keepPortfolio =>
    /\ C11_LoansInFull
    /\ \A k \in Purchases :
         monthProjections[purchaseLog[k].month].endBalance
           = availableIn(monthProjections[purchaseLog[k].month])

\* C11, amended: as above, but the end balance of a purchase month is
\* start + investable + growth floored at zero, since the clamp of lines
\* 177-180 also acts in a purchase month.
C11_KeepPortfolio ==
  config.keepPortfolio =>
    /\ C11_LoansInFull
    /\ \A k \in Purchases :
         monthProjections[purchaseLog[k].month].endBalance
           = Max(0, availableIn(monthProjections[purchaseLog[k].month]))

\* a finished run with keepPortfolio in which a purchase was borrowed in full
\* although the balance covered it, and another met a negative balance
C11_Witness ==
  /\ pc = "done"
  /\ config.keepPortfolio
  /\ \E k \in Purchases :
       /\ purchaseLog[k].available >= purchaseLog[k].cashNeeded
       /\ purchaseLog[k].parentLoan = purchaseLog[k].cashNeeded
  /\ result.parentLoanTotal = sumCosts(Len(purchaseLog))

\* the field f of the month records lo..hi, summed; an absent loan counts 0
RECURSIVE sumMonths(_, _, _)
sumMonths(f, lo, hi) ==
  IF hi < lo THEN 0
  ELSE sumMonths(f, lo, hi - 1)
       + (IF f = "parentLoan" THEN loanIn(monthProjections[hi])
          ELSE monthProjections[hi][f])

\* the bridge loans of the first n yearly records, summed
RECURSIVE sumYearlyLoans(_, _)
sumYearlyLoans(yearly, n) ==
  IF n = 0 THEN 0 ELSE sumYearlyLoans(yearly, n - 1) + loanIn(yearly[n])

\* C12: the returned yearly records are the twelve-month blocks of the month
\* sequence: record k starts with the start balance of month 12(k-1)+1, ends
\* with the end balance of month 12k, and its contributions, growth,
\* propertyWithdrawal and parentLoan are the sums over those months; the
\* yearly bridge loans add up to parentLoanTotal.
C12_YearlyIsBlockSum ==
  pc = "done" =>
    LET yearly == result.projections
        years == config.targetAge - config.currentAge
    IN  /\ DOMAIN yearly = 1..years
        /\ \A k \in 1..years :
             LET lo == 12 * (k - 1) + 1
                 hi == 12 * k
             IN  /\ yearly[k].startBalance = monthProjections[lo].startBalance
                 /\ yearly[k].endBalance = monthProjections[hi].endBalance
                 /\ yearly[k].contributions = sumMonths("contribution", lo, hi)
                 /\ yearly[k].growth = sumMonths("growth", lo, hi)
                 /\ yearly[k].propertyWithdrawal = sumMonths("propertyWithdrawal", lo, hi)
                 /\ loanIn(yearly[k]) = sumMonths("parentLoan", lo, hi)
        /\ sumYearlyLoans(yearly, years)
             = (IF result.parentLoanTotal = NULL THEN 0 ELSE result.parentLoanTotal)

\* a finished run whose first yearly record adds up the bridge loans of two
\* purchase months and a withdrawal, and whose later records hold growth
C12_Witness ==
  /\ pc = "done"
  /\ \E i, j \in 1..12 :
       /\ i < j
       /\ loanIn(monthProjections[i]) > 0
       /\ loanIn(monthProjections[j]) > 0
       /\ result.projections[1].parentLoan
            = loanIn(monthProjections[i]) + loanIn(monthProjections[j])
  /\ result.projections[1].propertyWithdrawal > 0
  /\ \E k \in DOMAIN result.projections : k > 1 /\ result.projections[k].growth > 0

\* C13: a run without properties never withdraws, borrows or pays a
\* mortgage or a bridge loan, returns neither parentLoanTotal nor phases,
\* and, the return rate and the investable amount being non-negative, no
\* month ends below its start balance.
C13_NoPropertyRun ==
  properties = << >> =>
    /\ \A mm \in Recorded :
         LET rec == monthProjections[mm]
         IN  /\ rec.propertyWithdrawal = 0
             /\ rec.propertyLabel = ""
             /\ rec.parentLoan = NULL
             /\ rec.monthlyMortgage = 0
             /\ rec.monthlyParentLoan = 0
             /\ (returnRate >= 0 /\ rec.monthlyInvesting >= 0
                  => rec.endBalance >= rec.startBalance)
    /\ (pc = "done" => result.parentLoanTotal = NULL /\ result.phases = << >>)

\* a finished run without properties that started overdrawn, paid a rent
\* above the capacity in some month and earned growth in another
C13_Witness ==
  /\ pc = "done"
  /\ properties = << >>
  /\ monthProjections[1].startBalance < 0
  /\ \E mm \in Recorded : /\ monthProjections[mm].monthlyRent > config.monthlyInvestment
                           /\ monthProjections[mm].monthlyInvesting = 0
  /\ \E mm \in Recorded : monthProjections[mm].growth > 0

\* ------------------------------------------------------------------------
\* Termination of buildScenario
\* ------------------------------------------------------------------------

\* the month loop has run n times and recorded the months 1..n in order
loopRanTimes(n) ==
  /\ Len(monthProjections) = n
  /\ \A mm \in 1..n : monthProjections[mm].month = mm

\* the run has returned after exactly N = (targetAge - currentAge) * 12 steps
returnedAfterAllMonths ==
  /\ pc = "done"
  /\ loopRanTimes((config.targetAge - config.currentAge) * 12)
  /\ Len(result.monthProjections) = (config.targetAge - config.currentAge) * 12
  /\ \A mm \in DOMAIN result.monthProjections : result.monthProjections[mm].month = mm
  /\ Len(result.projections) = config.targetAge - config.currentAge

\* C14: buildScenario terminates after exactly N = (targetAge - currentAge)
\* * 12 steps: the loop never runs more than N times, the run does return,
\* and what it returns holds the N month records 1..N in order and exactly
\* targetAge - currentAge yearly records.
C14_TerminatesAfterNSteps ==
  /\ [](Len(monthProjections) <= (config.targetAge - config.currentAge) * 12)
  /\ [](pc = "done" => returnedAfterAllMonths)
  /\ <>returnedAfterAllMonths

\* the run has returned with all its month and yearly records
C14_Witness ==
  /\ returnedAfterAllMonths
  /\ Len(monthProjections) >= 36
  /\ properties # << >>

\* ------------------------------------------------------------------------
\* Phase label of a run without properties
\* ------------------------------------------------------------------------

\* C19: when the property list is empty every month record carries the
\* phase label "Investing".
C19_NoPropertyIsInvesting ==
  properties = << >> =>
    \A mm \in Recorded : monthProjections[mm].phase = "Investing"

\* ------------------------------------------------------------------------
\* The phase summary
\* ------------------------------------------------------------------------

\* C18: the returned phases, when present, are ordered and contiguous in
\* age: every phase has currentAge + 1 <= fromAge <= toAge <= targetAge, each
\* phase after the first starts the year after the previous one ends, the
\* first starts at currentAge + 1 and the last ends at targetAge.
C18_PhasesContiguous ==
  (pc = "done" /\ result.phases # << >>) =>
    LET phases == result.phases
    IN  /\ \A i \in DOMAIN phases :
             /\ config.currentAge + 1 <= phases[i].fromAge
             /\ phases[i].fromAge <= phases[i].toAge
             /\ phases[i].toAge <= config.targetAge
        /\ \A i \in DOMAIN phases :
             i > 1 => phases[i].fromAge = phases[i - 1].toAge + 1
        /\ phases[1].fromAge = config.currentAge + 1
        /\ phases[Len(phases)].toAge = config.targetAge

\* C17: the returned phases agree with the month sequence: for every phase
\* and every month m that is not a purchase month and whose year
\* y = ceil(m / 12) has fromAge <= currentAge + y <= toAge, the rent, the
\* mortgage, the bridge-loan repayment and the investable amount of the phase
\* are those of the month record.
C17_PhasesAgreeWithMonths ==
  (pc = "done" /\ result.phases # << >>) =>
    \A i \in DOMAIN result.phases : \A mm \in Recorded :
      LET phase == result.phases[i]
          rec == monthProjections[mm]
          age == config.currentAge + ceilDiv12(mm)
      IN  (mm \notin DOMAIN propertyMonthMap /\ phase.fromAge <= age /\ age <= phase.toAge)
            => /\ phase.monthlyRent = rec.monthlyRent
               /\ phase.monthlyMortgage = rec.monthlyMortgage
               /\ phase.monthlyParentLoan = rec.monthlyParentLoan
               /\ phase.monthlyInvesting = rec.monthlyInvesting

\* ------------------------------------------------------------------------
\* The recorded age
\* ------------------------------------------------------------------------

\* the calendar months after the start month, up to the month at offset n,
\* whose month of the year is the birth month
birthdaysAfterStart(cfg, n) ==
  LET startTotal == cfg.startYear * 12 + (cfg.startMo - 1)
  IN  { t \in (startTotal + 1)..(startTotal + n) : (t % 12) + 1 = cfg.birthMonth }

\* C20: for every start month and birth month, the age computed for month
\* offset m is currentAge plus the number of calendar months in
\* (start, start + m] that are the birth month: a birthday in month m itself
\* counts, and the age at the start itself is currentAge.
C20_AgeCountsBirthdaysAfterStart ==
  pc = "age" => result = config.currentAge + Cardinality(birthdaysAfterStart(config, m))

\* ------------------------------------------------------------------------
\* The required monthly capacity
\* ------------------------------------------------------------------------

\* the function form of buildScenario and its step form return the same
\* final balance
finalBalanceAgrees ==
  pc = "done" => result.finalBalance = finalBalanceOf(config, properties, returnRate)

\* the capacity c makes the scenario of the current search reach the target
reachesWith(c) ==
  reaches(config, properties, returnRate, adjustedFireOf(config), c)

\* C15: when some capacity in [0, 50000] reaches the target, the
\* requiredMonthly R that gapAnalysis returns for a non-empty property list
\* reaches it too, and R exceeds the least such capacity by less than 2: no
\* capacity of R - 2 or less reaches the target.
C15_RequiredMonthlyIsLeast ==
  (/\ pc = "returned"
   /\ Len(properties) > 0
   /\ (search.hits > 0 \/ reachesWith(SearchUpper)))
  => /\ reachesWith(result.requiredMonthly)
     /\ \A c \in 0..(result.requiredMonthly - 2) : ~reachesWith(c)

\* a search over two properties that returned a capacity between the two
\* ends, after probes that failed and probes that reached the target
C15_Witness ==
  /\ pc = "returned"
  /\ Len(properties) = 2
  /\ search.hits > 0
  /\ search.hits < search.i
  /\ result.requiredMonthly > 2
  /\ reachesWith(result.requiredMonthly)
  /\ ~reachesWith(result.requiredMonthly - 2)

\* C16: requiredMonthlyWithPhases evaluates the scenario at most 50 times
\* and then returns, what it returns is a whole number in [0, 50000], and
\* it is exactly 50000 when no probe reached the target, as is the case when
\* no capacity does.
C16_SearchBounded ==
  pc \in {"search", "return", "returned"} =>
    /\ search.i <= 50
    /\ (pc = "search" => search.i < 50)
    /\ (pc = "returned" =>
          /\ result.requiredMonthly \in 0..SearchUpper
          /\ (search.hits = 0 => result.requiredMonthly = SearchUpper))

\* a search that returned 50000: neither end of the range reaches the target
C16_Witness ==
  /\ pc = "returned"
  /\ search.i > 0
  /\ search.hits = 0
  /\ ~reachesWith(0)
  /\ ~reachesWith(SearchUpper)
  /\ result.requiredMonthly = SearchUpper

\* ------------------------------------------------------------------------
\* The chain of balances
\* ------------------------------------------------------------------------

purchasedBy(mm) == \E k \in Purchases : purchaseLog[k].month <= mm

\* C25: in every month record the phase label agrees with the amounts of
\* the same record: 'Renting' only before the first purchase month,
\* 'Mortgage + Parent Loan' only with a bridge-loan payment and a mortgage
\* payment above 0, 'Mortgage Only' only with a mortgage payment above 0 and
\* no bridge-loan payment, 'Post-Mortgage' only after a purchase and with
\* neither payment.
C25_LabelAgreesWithObligations ==
  pc = "done" =>
    \A mm \in Recorded :
      LET rec == monthProjections[mm]
      IN  /\ (rec.phase = "Renting" => mm < firstPurchaseMonth)
          /\ (rec.phase = "Mortgage + Parent Loan"
                => rec.monthlyParentLoan > 0 /\ rec.monthlyMortgage > 0)
          /\ (rec.phase = "Mortgage Only"
                => rec.monthlyMortgage > 0 /\ rec.monthlyParentLoan = 0)
          /\ (rec.phase = "Post-Mortgage"
                => purchasedBy(mm) /\ rec.monthlyMortgage = 0 /\ rec.monthlyParentLoan = 0)

\* ------------------------------------------------------------------------
\* The recorded age and the target age
\* ------------------------------------------------------------------------

\* C28: for every start month and birth month, the age recorded for each
\* month 1..totalMonths is at most targetAge, and the age recorded for the
\* last month is targetAge (so an age at which the target is reached, being
\* one of them, is at most targetAge).
C28_AgeAtMostTargetAge ==
  (pc = "age" /\ m \in 1..totalMonths) =>
    /\ result <= config.targetAge
    /\ (m = totalMonths => result = config.targetAge)

\* ------------------------------------------------------------------------
\* Runs on non-negative inputs
\* ------------------------------------------------------------------------

\* balances, capacity, rent, return rate and every price, percentage and
\* cost of the run are non-negative
nonNegativeInputs ==
  /\ config.currentPortfolio >= 0
  /\ config.currentCash >= 0
  /\ config.monthlyInvestment >= 0
  /\ config.monthlyRent >= 0
  /\ returnRate >= 0
  /\ \A k \in 1..Len(properties) :
       /\ properties[k].price >= 0
       /\ properties[k].downPaymentPercent >= 0
       /\ properties[k].feesPercent >= 0
       /\ properties[k].additionalCosts >= 0

\* C29: a run on non-negative inputs never takes the clamp branch: no
\* month's balance is negative before the clamp, every purchase withdraws at
\* most what is available and borrows the rest of its cost, and the
\* returned feasible flag is true.
C29_NonNegativeNeverClamps ==
  (pc = "done" /\ nonNegativeInputs) =>
    /\ \A mm \in Recorded : unclamped[mm] >= 0
    /\ \A k \in Purchases :
         /\ purchaseLog[k].propertyWithdrawal <= purchaseLog[k].available
         /\ purchaseLog[k].propertyWithdrawal + purchaseLog[k].parentLoan
              = purchaseLog[k].cashNeeded
    /\ result.feasible

\* a finished run on non-negative inputs with a purchase that took the whole
\* available balance and borrowed the rest, and a later purchase
C29_Witness ==
  /\ pc = "done"
  /\ nonNegativeInputs
  /\ Len(purchaseLog) = 2
  /\ purchaseLog[1].available > 0
  /\ purchaseLog[1].propertyWithdrawal = purchaseLog[1].available
  /\ purchaseLog[1].parentLoan > 0
  /\ unclamped[purchaseLog[1].month] = 0
  /\ result.feasible

\* ------------------------------------------------------------------------
\* The closed forms of compound.ts
\* ------------------------------------------------------------------------

\* the balance after k steps of the call of monthsToTarget under way
balanceAfter(k) == IF k = 0 THEN compound.presentValue ELSE compound.balances[k]

\* C22: monthsToTarget returns 0 when present >= target; otherwise the
\* balances after the steps 1, 2, ... follow
\* balance := balance * (1 + rate/12) + contribution, and it returns the
\* least m in 1..maxMonths whose balance is >= target, every earlier balance
\* being < target, and null exactly when no such m <= maxMonths exists, with
\* maxMonths = 720 when it is not given.
C22_MonthsToTargetIsFirstReach ==
  pc = "monthsToTarget" =>
    LET maxM == IF compound.maxMonths = NULL THEN 720 ELSE compound.maxMonths
        steps == 1..Len(compound.balances)
    IN  /\ \A k \in steps :
             balanceAfter(k) = (balanceAfter(k - 1) * (1200 + compound.annualRate)) \div 1200
                               + compound.monthlyContribution
        /\ (compound.presentValue >= compound.targetValue
              => result = 0 /\ steps = {})
        /\ (compound.presentValue < compound.targetValue /\ result # NULL
              => /\ result \in 1..maxM
                 /\ result = Len(compound.balances)
                 /\ balanceAfter(result) >= compound.targetValue
                 /\ \A k \in 1..(result - 1) : balanceAfter(k) < compound.targetValue)
        /\ (compound.presentValue < compound.targetValue /\ result = NULL
              => /\ Len(compound.balances) = Max(0, maxM)
                 /\ \A k \in steps : balanceAfter(k) < compound.targetValue)

\* a call that reached the target in the last month allowed, after months
\* below it
C22_Witness ==
  /\ pc = "monthsToTarget"
  /\ compound.maxMonths # NULL
  /\ result = compound.maxMonths
  /\ result > 1
  /\ balanceAfter(result - 1) < compound.targetValue
  /\ balanceAfter(result) >= compound.targetValue

\* a call without maxMonths that ran all 720 months and returned null
C22_WitnessDefault ==
  /\ pc = "monthsToTarget"
  /\ compound.maxMonths = NULL
  /\ result = NULL
  /\ Len(compound.balances) = 720

\* the contribution that solves the future-value equation, before the floor
solvedContribution ==
  IF compound.months <= 0 THEN compound.targetValue - compound.presentValue
  ELSE IF compound.annualRate = 0
  THEN (compound.targetValue - compound.presentValue) \div compound.months
  ELSE quotient((compound.targetValue * PowScale
                   - compound.presentValue * compoundFactor(compound.annualRate,
                                                            compound.months))
                * compound.annualRate,
                1200 * (compoundFactor(compound.annualRate, compound.months) - PowScale))

\* C23: requiredMonthly never returns a negative number: it returns the
\* solved contribution floored at 0, which is 0 whenever the present value
\* alone reaches the target by the horizon, and max(0, target - present)
\* when months <= 0.
C23_RequiredMonthlyFloored ==
  pc = "requiredMonthly" =>
    /\ result >= 0
    /\ result = Max(0, solvedContribution)
    /\ (compound.months > 0
        /\ futureValue(compound.presentValue, 0, compound.annualRate, compound.months)
             >= compound.targetValue
          => result = 0)
    /\ (compound.months <= 0
          => result = Max(0, compound.targetValue - compound.presentValue))

\* a call whose solved contribution is negative: the present value grows
\* past the target on its own
C23_Witness ==
  /\ pc = "requiredMonthly"
  /\ compound.months > 0
  /\ compound.annualRate > 0
  /\ compound.presentValue < compound.targetValue
  /\ solvedContribution < 0
  /\ result = 0

\* (target - present) / months as the program's arithmetic gives it: a
\* positive amount over 0 months is Infinity
overMonths(amount, months) ==
  IF months # 0 THEN quotient(amount, months)
  ELSE IF amount > 0 THEN Infinity
  ELSE IF amount < 0 THEN 0 - Infinity
  ELSE NULL

\* C24 as stated: at rate 0 futureValue is present + contribution * months
\* and requiredMonthly is max(0, (target - present) / months) whatever the
\* months, and futureValue is present when months <= 0.
C24_ZeroRateLinear_AsStated ==
  /\ (pc = "futureValue" =>
        /\ (compound.annualRate = 0
              => result = compound.presentValue
                          + compound.monthlyContribution * compound.months)
        /\ (compound.months <= 0 => result = compound.presentValue))
  /\ (pc = "requiredMonthly" /\ compound.annualRate = 0 =>
        result = Max(0, overMonths(compound.targetValue - compound.presentValue,
                                   compound.months)))

\* C24: with months > 0 and rate 0, futureValue is
\* present + contribution * months and requiredMonthly is
\* max(0, (target - present) / months); with months <= 0, whatever the rate,
\* futureValue is present and requiredMonthly is max(0, target - present).
C24_ZeroRateLinear ==
  /\ (pc = "futureValue" =>
        /\ (compound.annualRate = 0 /\ compound.months > 0
              => result = compound.presentValue
                          + compound.monthlyContribution * compound.months)
        /\ (compound.months <= 0 => result = compound.presentValue))
  /\ (pc = "requiredMonthly" =>
        /\ (compound.annualRate = 0 /\ compound.months > 0
              => result = Max(0, (compound.targetValue - compound.presentValue)
                                   \div compound.months))
        /\ (compound.months <= 0
              => result = Max(0, compound.targetValue - compound.presentValue)))

\* a call of futureValue at rate 0 over a negative number of months with a
\* contribution: the start balance comes back, not the linear formula
C24_Witness ==
  /\ pc = "futureValue"
  /\ compound.annualRate = 0
  /\ compound.months < 0
  /\ compound.monthlyContribution > 0
  /\ result = compound.presentValue
  /\ result # compound.presentValue + compound.monthlyContribution * compound.months

\* ------------------------------------------------------------------------
\* The closed-form required contribution against the scenario builder
\* ------------------------------------------------------------------------

\* C30: without properties, the run of buildScenario at the requiredMonthly
\* that gapAnalysis reports, every other field of the config unchanged,
\* ends with a finalBalance at or above the inflation-adjusted target of the
\* horizon, whatever the monthlyRent.
C30_ClosedFormReachesTarget ==
  (pc = "done" /\ properties = << >>) =>
    result.finalBalance >= adjustedFireOf(config)

\* ------------------------------------------------------------------------
\* Monotonicity of the final balance
\* ------------------------------------------------------------------------

\* C27: with the properties, the rate and every other field of the config
\* fixed, a larger monthlyInvestment never gives a smaller finalBalance:
\* each step of the capacity from c to c + 1 leaves finalBalance equal or
\* higher (and so does every step from c1 to any c2 >= c1).
C27_FinalBalanceMonotone ==
  [][pc = "sweep" => result' >= result]_vars

\* ------------------------------------------------------------------------
\* buildScenario as a pure function, buildAllScenarios
\* ------------------------------------------------------------------------

\* between the calls of a batch: the scenarios collected so far are one per
\* rate, in the order of the rates, equal for equal rates wherever in the
\* batch they were built, and end with the balance the scenario function
\* gives for the same arguments on its own
C21_State ==
  pc \in {"map", "mapped"} =>
    LET rates == batch.returnRates
        built == batch.scenarios
    IN  /\ Len(built) = batch.i - 1
        /\ Len(built) <= Len(rates)
        /\ \A i \in 1..Len(built) :
             /\ built[i].returnRate = rates[i]
             /\ built[i].finalBalance = finalBalanceOf(config, properties, rates[i])
             /\ \A j \in 1..Len(built) : rates[i] = rates[j] => built[i] = built[j]
        /\ (pc = "mapped" => result = built /\ Len(result) = Len(rates))

\* C21: buildScenario never modifies its config or its property list, two
\* calls with equal arguments return equal results whatever ran in between,
\* and buildAllScenarios returns one scenario per entry of
\* config.returnRates, in the same order, each the scenario of that rate
\* alone.
C21_PureAndPerRate ==
  /\ []C21_State
  /\ [][config' = config /\ properties' = properties]_vars

\* a batch of three rates over two purchases with a bridge loan: the first
\* and the third scenario, built for the same rate around a different one,
\* are equal
C21_Witness ==
  /\ pc = "mapped"
  /\ Len(properties) = 2
  /\ Len(result) = 3
  /\ batch.returnRates[1] = batch.returnRates[3]
  /\ batch.returnRates[1] # batch.returnRates[2]
  /\ result[1] = result[3]
  /\ result[1] # result[2]
  /\ result[1].parentLoanTotal # NULL
  /\ Len(activeMortgages) = 2

====
